---- MODULE Spec2Model ----
(***************************************************************************)
(* Orchestration loop of the function-calling client                        *)
(* (client/orchestrator/loop.py, client/schemas/tool_call.py,               *)
(* client/api/tool_client.py, client/llm/ollama_client.py).                 *)
(*                                                                          *)
(* Text is a sequence of atoms.  An atom is one significant character       *)
(* ( { } [ ] : , " space newline tab ), the three-backtick fence marker,    *)
(* an escape pair ( \" \n \t ), or an opaque run of ordinary characters     *)
(* (a "word": kind, tool_call, Tokyo, 25, null, ...).  All string           *)
(* operations of the code (strip, split, join, count, startswith) and       *)
(* json.loads / json.dumps are computed on these sequences.                 *)
(***************************************************************************)
EXTENDS Integers, Sequences, FiniteSets, TLC

\* ------------------------------------------------------------------------
\* Atoms
\* ------------------------------------------------------------------------
QUOTE == "\""
\* the code-fence marker: three consecutive backtick characters
FENCE == "<fence>"
ESC_QUOTE == "\\\""
ESC_NL == "\\n"
ESC_TAB == "\\t"

\* whitespace the JSON scanner skips (str.strip() removes it too)
Whitespace == {" ", "\n", "\t"}

\* a no-break space (U+00A0): whitespace to str.strip(), not to the JSON scanner
NBSP == "<nbsp>"

\* characters removed by str.strip()
StripChars == Whitespace \cup {NBSP}

\* characters a strict JSON string literal may not contain unescaped
ControlChars == {"\n", "\t"}

NumberWords == {"0", "1", "25", "404"}

LiteralWords == {"null", "true", "false"}

\* ------------------------------------------------------------------------
\* str methods used by the code
\* ------------------------------------------------------------------------
RECURSIVE LStrip(_)
LStrip(s) ==
    IF s = <<>> THEN s
    ELSE IF Head(s) \in StripChars THEN LStrip(Tail(s)) ELSE s

RECURSIVE RStrip(_)
RStrip(s) ==
    IF s = <<>> THEN s
    ELSE IF s[Len(s)] \in StripChars THEN RStrip(SubSeq(s, 1, Len(s) - 1)) ELSE s

\* str.strip()
Strip(s) == RStrip(LStrip(s))

\* str.startswith(three backticks)
StartsWithFence(s) == s /= <<>> /\ s[1] = FENCE

\* str.count(ch) for a one-character ch
RECURSIVE Count(_, _)
Count(s, ch) ==
    IF s = <<>> THEN 0
    ELSE (IF Head(s) = ch THEN 1 ELSE 0) + Count(Tail(s), ch)

\* str.split("\n"): always at least one line
RECURSIVE SplitFrom(_, _, _)
SplitFrom(s, i, cur) ==
    IF i > Len(s) THEN <<cur>>
    ELSE IF s[i] = "\n" THEN <<cur>> \o SplitFrom(s, i + 1, <<>>)
    ELSE SplitFrom(s, i + 1, Append(cur, s[i]))

SplitLines(s) == SplitFrom(s, 1, <<>>)

\* "\n".join(lines)
RECURSIVE JoinLines(_)
JoinLines(lines) ==
    IF lines = <<>> THEN <<>>
    ELSE IF Len(lines) = 1 THEN lines[1]
    ELSE lines[1] \o <<"\n">> \o JoinLines(Tail(lines))

\* "}" * n
RECURSIVE Repeat(_, _)
Repeat(ch, n) == IF n <= 0 THEN <<>> ELSE <<ch>> \o Repeat(ch, n - 1)

\* ------------------------------------------------------------------------
\* Python / JSON values: tagged records [t, v]
\* ------------------------------------------------------------------------
JStr(atoms) == [t |-> "str", v |-> atoms]
JNum(w) == [t |-> "num", v |-> <<w>>]
JLit(w) == [t |-> "lit", v |-> <<w>>]
JArr(items) == [t |-> "arr", v |-> items]
JObj(pairs) == [t |-> "obj", v |-> pairs]
JNull == JLit("null")
JTrue == JLit("true")
JFalse == JLit("false")
\* a Python object the json encoder has no encoding for
PyObject == [t |-> "pyobj", v |-> <<>>]

IsStr(x) == x.t = "str"
IsObj(x) == x.t = "obj"
IsNull(x) == x.t = "lit" /\ x.v = <<"null">>

\* dict[key] = val: an existing key keeps its position, a new key goes last
RECURSIVE PutPair(_, _, _)
PutPair(pairs, key, val) ==
    IF pairs = <<>> THEN <<[k |-> key, val |-> val]>>
    ELSE IF Head(pairs).k = key THEN <<[k |-> key, val |-> val]>> \o Tail(pairs)
    ELSE <<Head(pairs)>> \o PutPair(Tail(pairs), key, val)

\* key in dict
HasKey(obj, key) == \E i \in 1..Len(obj.v) : obj.v[i].k = key

\* dict.get(key): None when the key is absent
DictGet(obj, key) ==
    IF HasKey(obj, key)
    THEN obj.v[CHOOSE i \in 1..Len(obj.v) : obj.v[i].k = key].val
    ELSE JNull

\* ------------------------------------------------------------------------
\* json.loads (strict): recursive descent over the atoms
\* ------------------------------------------------------------------------
ParseFail == [ok |-> FALSE]

RECURSIVE SkipWs(_, _)
SkipWs(s, i) ==
    IF i <= Len(s) /\ s[i] \in Whitespace THEN SkipWs(s, i + 1) ELSE i

Unescape(a) ==
    IF a = ESC_QUOTE THEN QUOTE
    ELSE IF a = ESC_NL THEN "\n"
    ELSE IF a = ESC_TAB THEN "\t"
    ELSE a

\* body of a string literal, i is the position after the opening quote
RECURSIVE ScanString(_, _, _)
ScanString(s, i, acc) ==
    IF i > Len(s) THEN ParseFail
    ELSE IF s[i] = QUOTE THEN [ok |-> TRUE, val |-> JStr(acc), next |-> i + 1]
    ELSE IF s[i] \in ControlChars THEN ParseFail
    ELSE ScanString(s, i + 1, Append(acc, Unescape(s[i])))

\* the one element of a one-element set.  Only({ e(x) : x \in {v} }) is
\* e(v) with v evaluated once, however often e uses it.
Only(S) == CHOOSE x \in S : TRUE

RECURSIVE ParseValue(_, _)
RECURSIVE ParseMembers(_, _, _)
RECURSIVE MemberEnd(_, _, _, _)
RECURSIVE ParseElements(_, _, _)
RECURSIVE ElementEnd(_, _, _)

\* members of an object, j is the position of the next key
ParseMembers(s, j, acc) ==
    IF j > Len(s) \/ s[j] /= QUOTE THEN ParseFail
    ELSE Only({ IF ~key.ok THEN ParseFail
                ELSE LET c == SkipWs(s, key.next) IN
                     IF c > Len(s) \/ s[c] /= ":" THEN ParseFail
                     ELSE Only({ MemberEnd(s, acc, key.val.v, val) :
                                     val \in { ParseValue(s, SkipWs(s, c + 1)) } })
                : key \in { ScanString(s, j + 1, <<>>) } })

\* what follows the value val of the member named key: "," and the next
\* member, or the closing brace
MemberEnd(s, acc, key, val) ==
    IF ~val.ok THEN ParseFail
    ELSE LET m == SkipWs(s, val.next)
             acc2 == PutPair(acc, key, val.val) IN
         IF m > Len(s) THEN ParseFail
         ELSE IF s[m] = "}"
              THEN [ok |-> TRUE, val |-> JObj(acc2), next |-> m + 1]
         ELSE IF s[m] = ","
              THEN ParseMembers(s, SkipWs(s, m + 1), acc2)
         ELSE ParseFail

\* elements of an array, j is the position of the next element
ParseElements(s, j, acc) ==
    Only({ ElementEnd(s, acc, val) : val \in { ParseValue(s, j) } })

\* what follows the element val: "," and the next element, or the closing
\* bracket
ElementEnd(s, acc, val) ==
    IF ~val.ok THEN ParseFail
    ELSE LET m == SkipWs(s, val.next)
             acc2 == Append(acc, val.val) IN
         IF m > Len(s) THEN ParseFail
         ELSE IF s[m] = "]"
              THEN [ok |-> TRUE, val |-> JArr(acc2), next |-> m + 1]
         ELSE IF s[m] = ","
              THEN ParseElements(s, SkipWs(s, m + 1), acc2)
         ELSE ParseFail

\* one JSON value starting at position i (whitespace already skipped)
ParseValue(s, i) ==
    IF i > Len(s) THEN ParseFail
    ELSE IF s[i] = QUOTE THEN ScanString(s, i + 1, <<>>)
    ELSE IF s[i] = "{"
         THEN LET j == SkipWs(s, i + 1) IN
              IF j <= Len(s) /\ s[j] = "}"
              THEN [ok |-> TRUE, val |-> JObj(<<>>), next |-> j + 1]
              ELSE ParseMembers(s, j, <<>>)
    ELSE IF s[i] = "["
         THEN LET j == SkipWs(s, i + 1) IN
              IF j <= Len(s) /\ s[j] = "]"
              THEN [ok |-> TRUE, val |-> JArr(<<>>), next |-> j + 1]
              ELSE ParseElements(s, j, <<>>)
    ELSE IF s[i] \in NumberWords
         THEN [ok |-> TRUE, val |-> JNum(s[i]), next |-> i + 1]
    ELSE IF s[i] \in LiteralWords
         THEN [ok |-> TRUE, val |-> JLit(s[i]), next |-> i + 1]
    ELSE ParseFail

\* the decoded value r must be followed by nothing but whitespace
EndOfText(s, r) ==
    IF ~r.ok THEN ParseFail
    ELSE IF SkipWs(s, r.next) <= Len(s) THEN ParseFail
    ELSE [ok |-> TRUE, val |-> r.val]

\* json.loads(text): [ok |-> TRUE, val] or [ok |-> FALSE] (json.JSONDecodeError)
JsonLoads(s) ==
    Only({ Only({ EndOfText(text, r) : r \in { ParseValue(text, SkipWs(text, 1)) } })
           : text \in { s } })

\* ------------------------------------------------------------------------
\* json.dumps(value, ensure_ascii=False): separators ", " and ": "
\* ------------------------------------------------------------------------
Escape(a) ==
    IF a = QUOTE THEN ESC_QUOTE
    ELSE IF a = "\n" THEN ESC_NL
    ELSE IF a = "\t" THEN ESC_TAB
    ELSE a

DumpString(atoms) ==
    <<QUOTE>> \o [i \in 1..Len(atoms) |-> Escape(atoms[i])] \o <<QUOTE>>

\* TRUE when the encoder raises TypeError on the value
RECURSIVE Unserializable(_)
Unserializable(x) ==
    IF x.t = "pyobj" THEN TRUE
    ELSE IF x.t = "arr" THEN \E i \in 1..Len(x.v) : Unserializable(x.v[i])
    ELSE IF x.t = "obj" THEN \E i \in 1..Len(x.v) : Unserializable(x.v[i].val)
    ELSE FALSE

RECURSIVE JsonDumps(_)
RECURSIVE DumpItems(_)
RECURSIVE DumpPairs(_)

DumpItems(items) ==
    IF items = <<>> THEN <<>>
    ELSE IF Len(items) = 1 THEN JsonDumps(items[1])
    ELSE JsonDumps(items[1]) \o <<",", " ">> \o DumpItems(Tail(items))

DumpPairs(pairs) ==
    IF pairs = <<>> THEN <<>>
    ELSE LET one == DumpString(pairs[1].k) \o <<":", " ">> \o JsonDumps(pairs[1].val) IN
         IF Len(pairs) = 1 THEN one
         ELSE one \o <<",", " ">> \o DumpPairs(Tail(pairs))

JsonDumps(x) ==
    IF x.t = "str" THEN DumpString(x.v)
    ELSE IF x.t = "arr" THEN <<"[">> \o DumpItems(x.v) \o <<"]">>
    ELSE IF x.t = "obj" THEN <<"{">> \o DumpPairs(x.v) \o <<"}">>
    ELSE x.v

\* ------------------------------------------------------------------------
\* client/orchestrator/loop.py: safe_parse_json
\* ------------------------------------------------------------------------
\* loop.py 493-500: drop the first fence line and a closing fence line
StripFence(text) ==
    IF StartsWithFence(text)
    THEN Only({ LET l1 == IF StartsWithFence(lines[1]) THEN Tail(lines) ELSE lines
                    l2 == IF l1 /= <<>> /\ Strip(l1[Len(l1)]) = <<FENCE>>
                          THEN SubSeq(l1, 1, Len(l1) - 1)
                          ELSE l1
                IN  Strip(JoinLines(l2))
                : lines \in { SplitLines(text) } })
    ELSE text

\* BalanceBraces also putting missing opening braces in front of the text
BalanceBraces_AlsoOpens(text) ==
    LET open_braces == Count(text, "{")
        close_braces == Count(text, "}")
    IN  IF open_braces > close_braces
        THEN text \o Repeat("}", open_braces - close_braces)
        ELSE Repeat("{", close_braces - open_braces) \o text

\* loop.py 511-514: append the deficit of closing braces
BalanceBraces(text) ==
    LET open_braces == Count(text, "{")
        close_braces == Count(text, "}")
    IN  IF open_braces > close_braces
        THEN text \o Repeat("}", open_braces - close_braces)
        ELSE text

\* safe_parse_json returning its argument when the cleaned text parses
safe_parse_json_ReturnsArgument(text) ==
    Only({ IF JsonLoads(t1).ok THEN [ok |-> TRUE, text |-> text]
           ELSE LET t2 == BalanceBraces(t1) IN
                IF JsonLoads(t2).ok THEN [ok |-> TRUE, text |-> t2]
                ELSE [ok |-> FALSE, exc |-> "ValueError", cause |-> "JSONDecodeError"]
           : t1 \in { StripFence(stripped) : stripped \in { Strip(text) } } })

\* safe_parse_json returning its best effort when the second parse fails
safe_parse_json_BestEffort(text) ==
    Only({ IF JsonLoads(t1).ok THEN [ok |-> TRUE, text |-> t1]
           ELSE [ok |-> TRUE, text |-> BalanceBraces(t1)]
           : t1 \in { StripFence(stripped) : stripped \in { Strip(text) } } })

\* safe_parse_json balancing braces before the first parse
safe_parse_json_BalancesFirst(text) ==
    Only({ IF JsonLoads(t2).ok THEN [ok |-> TRUE, text |-> t2]
           ELSE [ok |-> FALSE, exc |-> "ValueError", cause |-> "JSONDecodeError"]
           : t2 \in { BalanceBraces(StripFence(stripped)) : stripped \in { Strip(text) } } })

\* [ok |-> TRUE, text], or [ok |-> FALSE, exc |-> "ValueError"] raised from
\* the json.JSONDecodeError of the second parse (loop.py 521-523)
safe_parse_json(text) ==
    Only({ IF JsonLoads(t1).ok THEN [ok |-> TRUE, text |-> t1]
           ELSE LET t2 == BalanceBraces(t1) IN
                IF JsonLoads(t2).ok THEN [ok |-> TRUE, text |-> t2]
                ELSE [ok |-> FALSE, exc |-> "ValueError", cause |-> "JSONDecodeError"]
           : t1 \in { StripFence(stripped) : stripped \in { Strip(text) } } })

\* ------------------------------------------------------------------------
\* client/schemas/tool_call.py: the response models
\* ------------------------------------------------------------------------
\* pydantic.ValidationError is a ValueError
ValidationError == [ok |-> FALSE, exc |-> "ValueError"]

\* a required str field with min_length=1 and a strip-and-reject-empty validator
ValidRequiredText(data, key) ==
    /\ HasKey(data, key)
    /\ IsStr(DictGet(data, key))
    /\ Len(DictGet(data, key).v) >= 1
    /\ Strip(DictGet(data, key).v) /= <<>>

\* an Optional[str] field: absent, null or a string
ValidOptionalText(data, key) ==
    HasKey(data, key) => (IsNull(DictGet(data, key)) \/ IsStr(DictGet(data, key)))

\* strings pydantic's lax mode accepts for a bool field
BoolWords == {"true", "false", "yes", "no", "on", "off", "1", "0"}

ValidBool(x) ==
    \/ x.t = "lit" /\ x.v \in {<<"true">>, <<"false">>}
    \/ x.t = "num" /\ x.v \in {<<"0">>, <<"1">>}
    \/ x.t = "str" /\ Len(x.v) = 1 /\ x.v[1] \in BoolWords

BoolOf(x) ==
    IF x.v[1] \in {"true", "yes", "on", "1"} THEN JTrue ELSE JFalse

ValidStrList(x) ==
    x.t = "arr" /\ \A i \in 1..Len(x.v) : IsStr(x.v[i])

ToolCall(tool, arguments, content, thought) ==
    [kind |-> "tool_call", tool |-> tool, arguments |-> arguments,
     content |-> content, thought |-> thought]

ToolResult(tool, ok, content, error) ==
    [kind |-> "tool_result", tool |-> tool, ok |-> ok,
     content |-> content, error |-> error]

FinalAnswer(content) == [kind |-> "final_answer", content |-> content]

Clarification(question, missing_params) ==
    [kind |-> "clarify", question |-> question, missing_params |-> missing_params]

ToolCall_model_validate(data) ==
    IF /\ ValidRequiredText(data, <<"tool">>)
       /\ HasKey(data, <<"arguments">>)
       /\ IsObj(DictGet(data, <<"arguments">>))
       /\ ValidOptionalText(data, <<"content">>)
       /\ ValidOptionalText(data, <<"thought">>)
    THEN [ok |-> TRUE,
          value |-> ToolCall(Strip(DictGet(data, <<"tool">>).v),
                             DictGet(data, <<"arguments">>),
                             DictGet(data, <<"content">>),
                             DictGet(data, <<"thought">>))]
    ELSE ValidationError

ToolResult_model_validate(data) ==
    IF /\ HasKey(data, <<"tool">>)
       /\ IsStr(DictGet(data, <<"tool">>))
       /\ Len(DictGet(data, <<"tool">>).v) >= 1
       /\ HasKey(data, <<"ok">>)
       /\ ValidBool(DictGet(data, <<"ok">>))
       /\ ValidOptionalText(data, <<"content">>)
       /\ ValidOptionalText(data, <<"error">>)
    THEN [ok |-> TRUE,
          value |-> ToolResult(DictGet(data, <<"tool">>).v,
                               BoolOf(DictGet(data, <<"ok">>)),
                               DictGet(data, <<"content">>),
                               DictGet(data, <<"error">>))]
    ELSE ValidationError

\* FinalAnswer.validate_content returning the content as it was given
FinalAnswer_model_validate_KeepsBlanks(data) ==
    IF ValidRequiredText(data, <<"content">>)
    THEN [ok |-> TRUE, value |-> FinalAnswer(DictGet(data, <<"content">>).v)]
    ELSE ValidationError

\* tool_call.py 213-236: FinalAnswer.content, min_length=1, validate_content
FinalAnswer_model_validate(data) ==
    IF ValidRequiredText(data, <<"content">>)
    THEN [ok |-> TRUE, value |-> FinalAnswer(Strip(DictGet(data, <<"content">>).v))]
    ELSE ValidationError

Clarification_model_validate(data) ==
    IF /\ ValidRequiredText(data, <<"question">>)
       /\ (HasKey(data, <<"missing_params">>)
              => ValidStrList(DictGet(data, <<"missing_params">>)))
    THEN [ok |-> TRUE,
          value |-> Clarification(Strip(DictGet(data, <<"question">>).v),
                                  IF HasKey(data, <<"missing_params">>)
                                  THEN DictGet(data, <<"missing_params">>)
                                  ELSE JArr(<<>>))]
    ELSE ValidationError

\* BaseModel.model_dump(): the fields in declaration order
model_dump(m) ==
    IF m.kind = "tool_call"
    THEN JObj(<< [k |-> <<"kind">>, val |-> JStr(<<"tool_call">>)],
                 [k |-> <<"tool">>, val |-> JStr(m.tool)],
                 [k |-> <<"arguments">>, val |-> m.arguments],
                 [k |-> <<"content">>, val |-> m.content],
                 [k |-> <<"thought">>, val |-> m.thought] >>)
    ELSE IF m.kind = "tool_result"
    THEN JObj(<< [k |-> <<"kind">>, val |-> JStr(<<"tool_result">>)],
                 [k |-> <<"tool">>, val |-> JStr(m.tool)],
                 [k |-> <<"ok">>, val |-> m.ok],
                 [k |-> <<"content">>, val |-> m.content],
                 [k |-> <<"error">>, val |-> m.error] >>)
    ELSE IF m.kind = "final_answer"
    THEN JObj(<< [k |-> <<"kind">>, val |-> JStr(<<"final_answer">>)],
                 [k |-> <<"content">>, val |-> JStr(m.content)] >>)
    ELSE JObj(<< [k |-> <<"kind">>, val |-> JStr(<<"clarify">>)],
                 [k |-> <<"question">>, val |-> JStr(m.question)],
                 [k |-> <<"missing_params">>, val |-> m.missing_params] >>)

\* tool_call.py 363-374: data.get("kind") selects the model class
model_validate_by_kind(data) ==
    IF ~IsObj(data) THEN [ok |-> FALSE, exc |-> "AttributeError"]
    ELSE LET kind == DictGet(data, <<"kind">>) IN
         IF IsStr(kind) /\ kind.v = <<"tool_call">>
         THEN ToolCall_model_validate(data)
         ELSE IF IsStr(kind) /\ kind.v = <<"tool_result">>
         THEN ToolResult_model_validate(data)
         ELSE IF IsStr(kind) /\ kind.v = <<"final_answer">>
         THEN FinalAnswer_model_validate(data)
         ELSE IF IsStr(kind) /\ kind.v = <<"clarify">>
         THEN Clarification_model_validate(data)
         ELSE [ok |-> FALSE, exc |-> "ValueError"]

\* [ok |-> TRUE, value] or [ok |-> FALSE, exc]: exc is "ValueError" for a
\* JSON, kind or validation failure and "AttributeError" when the decoded
\* value has no .get (tool_call.py 363 on a list, string, number or null)
parse_llm_response(response_text) ==
    Only({ IF ~loaded.ok THEN [ok |-> FALSE, exc |-> "ValueError"]
           ELSE model_validate_by_kind(loaded.val)
           : loaded \in { JsonLoads(response_text) } })

\* ------------------------------------------------------------------------
\* Reply texts the scripted LLM transport can return
\* ------------------------------------------------------------------------
Lit(w) == <<QUOTE, w, QUOTE>>

Member(key, valueText) == Lit(key) \o <<":">> \o valueText

\* {"kind":"final_answer","content":"OK"}
ReplyFinal ==
    <<"{">> \o Member("kind", Lit("final_answer")) \o <<",">>
            \o Member("content", Lit("OK")) \o <<"}">>

\* the same answer with blanks around the content and around the text
ReplyFinalPadded ==
    <<" ", "{">> \o Member("kind", Lit("final_answer")) \o <<",">>
                 \o Member("content", <<QUOTE, " ", "OK", " ", QUOTE>>) \o <<"}", "\n">>

\* {"kind":"final_answer","content":"OK"   (closing brace missing)
ReplyFinalUnclosed ==
    <<"{">> \o Member("kind", Lit("final_answer")) \o <<",">>
            \o Member("content", Lit("OK"))

\* {"kind":"final_answer","content":""}
ReplyFinalEmpty ==
    <<"{">> \o Member("kind", Lit("final_answer")) \o <<",">>
            \o Member("content", <<QUOTE, QUOTE>>) \o <<"}">>

\* {"kind":"final_answer","content":" "}
ReplyFinalBlank ==
    <<"{">> \o Member("kind", Lit("final_answer")) \o <<",">>
            \o Member("content", <<QUOTE, " ", QUOTE>>) \o <<"}">>

\* {"kind":"tool_call","tool":"get_weather","arguments":{"city":"Tokyo"}}
ReplyToolCall ==
    <<"{">> \o Member("kind", Lit("tool_call")) \o <<",">>
            \o Member("tool", Lit("get_weather")) \o <<",">>
            \o Member("arguments", <<"{">> \o Member("city", Lit("Tokyo")) \o <<"}">>)
            \o <<"}">>

\* a fenced tool call naming a tool the catalog does not list
ReplyToolCallFenced ==
    <<FENCE, "json", "\n", "{">> \o Member("kind", Lit("tool_call")) \o <<",">>
            \o Member("tool", Lit("no_such_tool")) \o <<",">>
            \o Member("arguments", <<"{", "}">>)
            \o <<"}", "\n", FENCE>>

\* {"kind":"tool_call","tool":"calculate","arguments":{   (two braces missing)
ReplyToolCallUnclosed ==
    <<"{">> \o Member("kind", Lit("tool_call")) \o <<",">>
            \o Member("tool", Lit("calculate")) \o <<",">>
            \o Member("arguments", <<"{">>)

\* {"kind":"clarify","question":"Which city?","missing_params":["city"]}
ReplyClarify ==
    <<"{">> \o Member("kind", Lit("clarify")) \o <<",">>
            \o Member("question", <<QUOTE, "Which", " ", "city?", QUOTE>>) \o <<",">>
            \o Member("missing_params", <<"[">> \o Lit("city") \o <<"]">>)
            \o <<"}">>

\* {"kind":"tool_result","tool":"get_weather","ok":true}
ReplyToolResult ==
    <<"{">> \o Member("kind", Lit("tool_result")) \o <<",">>
            \o Member("tool", Lit("get_weather")) \o <<",">>
            \o Member("ok", <<"true">>) \o <<"}">>

\* {"kind":"other"}
ReplyUnknownKind == <<"{">> \o Member("kind", Lit("other")) \o <<"}">>

ReplyNotJson == <<"this", " ", "is", " ", "not", " ", "json">>

ReplyEmpty == <<>>

\* valid JSON that is not an object
ReplyArray == <<"[", "]">>

ReplyArrayFenced == <<FENCE, "\n", "[", "]", "\n", FENCE>>

LLMReplies ==
    { ReplyFinal, ReplyFinalPadded, ReplyFinalUnclosed, ReplyFinalEmpty, ReplyFinalBlank,
      ReplyToolCall, ReplyToolCallFenced, ReplyToolCallUnclosed,
      ReplyClarify, ReplyToolResult, ReplyUnknownKind,
      ReplyNotJson, ReplyEmpty, ReplyArray, ReplyArrayFenced }

\* ------------------------------------------------------------------------
\* client/api/tool_client.py: call_tool
\* ------------------------------------------------------------------------
\* What the HTTP POST to /tools/{tool_name} can do: an exception of the
\* requests library, or a response with a status code and a body text.
HttpResponse(status, text) == [kind |-> "response", status |-> status, text |-> text]

ErrorBody == <<"{">> \o Member("error", Lit("bad_request")) \o <<"}">>

ResultBody == <<"{">> \o Member("temperature", <<"25">>) \o <<"}">>

ToolHttpOutcomes ==
    { HttpResponse(200, ResultBody),
      HttpResponse(200, <<"not", " ", "json">>),
      HttpResponse(400, ErrorBody),
      HttpResponse(404, <<>>),
      HttpResponse(500, <<"oops">>),
      HttpResponse(503, <<>>),
      [kind |-> "Timeout"],
      [kind |-> "ConnectionError"],
      [kind |-> "RequestException"] }

\* str(status_code)
StatusWord(status) ==
    IF status = 400 THEN "400"
    ELSE IF status = 404 THEN "404"
    ELSE IF status = 500 THEN "500"
    ELSE IF status = 503 THEN "503"
    ELSE "200"

\* a non-empty string under the key of a decoded error object
HasText(error_data, key) ==
    /\ IsObj(error_data)
    /\ HasKey(error_data, key)
    /\ IsStr(DictGet(error_data, key))
    /\ DictGet(error_data, key).v /= <<>>

\* tool_client.py 330-338: the first of "error", "message", "detail" that
\* is set, else str(error_data)
error_field(error_data) ==
    IF HasText(error_data, <<"error">>) THEN DictGet(error_data, <<"error">>).v
    ELSE IF HasText(error_data, <<"message">>) THEN DictGet(error_data, <<"message">>).v
    ELSE IF HasText(error_data, <<"detail">>) THEN DictGet(error_data, <<"detail">>).v
    ELSE <<"str(error_data)">>

\* tool_client.py 315-342
extract_error_message(response) ==
    LET error_data == JsonLoads(response.text) IN
    IF error_data.ok THEN error_field(error_data.val)
    ELSE IF response.text /= <<>> THEN response.text
    ELSE <<"HTTP_error", " ", StatusWord(response.status)>>

Raise(exc, msg) == [kind |-> "raise", exc |-> exc, msg |-> msg]

Return(result) == [kind |-> "return", result |-> result]

\* tool_client.py 80-195: the result dict, or the exception raised with its
\* message (str(e)).  A 200 body that is not JSON makes response.json()
\* raise requests' JSONDecodeError, a RequestException (line 190).
call_tool(tool_name, http) ==
    IF http.kind = "Timeout"
    THEN Raise("ToolTimeoutError",
               <<"tool", " ", "'">> \o tool_name \o <<"'", " ", "timed_out">>)
    ELSE IF http.kind = "ConnectionError"
    THEN Raise("ToolCallError", <<"connection_to_api_server_failed">>)
    ELSE IF http.kind = "RequestException"
    THEN Raise("ToolCallError", <<"error_during_tool_call", ":", " ", "request_error">>)
    ELSE IF http.status = 200
    THEN IF JsonLoads(http.text).ok
         THEN Return(JsonLoads(http.text).val)
         ELSE Raise("ToolCallError", <<"error_during_tool_call", ":", " ", "invalid_json">>)
    ELSE IF http.status = 400
    THEN Raise("ToolValidationError",
               <<"tool", " ", "'">> \o tool_name \o <<"'", " ", "invalid_arguments", ":", " ">>
                   \o extract_error_message(http))
    ELSE IF http.status = 404
    THEN Raise("ToolNotFoundError",
               <<"tool", " ", "'">> \o tool_name \o <<"'", " ", "not_found", ":", " ">>
                   \o extract_error_message(http))
    ELSE IF http.status = 500
    THEN Raise("ToolServerError",
               <<"internal_server_error", ":", " ">> \o extract_error_message(http))
    ELSE Raise("ToolCallError",
               <<"unexpected_http_error", " ", StatusWord(http.status), ":", " ">>
                   \o extract_error_message(http))

\* What execute_tool can get from the call_tool it imports: the outcomes of
\* call_tool over the HTTP outcomes, and (call_tool replaced, as the unit
\* tests do) a returned object the JSON encoder cannot serialize.
ToolOutcomes(tool_name) ==
    { call_tool(tool_name, http) : http \in ToolHttpOutcomes } \cup { Return(PyObject) }

\* ------------------------------------------------------------------------
\* client/orchestrator/loop.py: execute_tool
\* ------------------------------------------------------------------------
\* execute_tool without the catch-all handler: only ToolCallError is wrapped
execute_tool_NoCatchAll(tool_call, outcome) ==
    IF outcome.kind = "return"
    THEN IF Unserializable(outcome.result)
         THEN Raise("TypeError", <<"Object", " ", "is", " ", "not", " ", "JSON", " ", "serializable">>)
         ELSE ToolResult(tool_call.tool, JTrue, JStr(JsonDumps(outcome.result)), JNull)
    ELSE IF outcome.exc = "ToolCallError"
    THEN ToolResult(tool_call.tool, JFalse, JStr(<<"tool_execution_failed">>), JStr(outcome.msg))
    ELSE outcome

\* execute_tool letting a tool timeout through instead of capturing it
execute_tool_TimeoutEscapes(tool_call, outcome) ==
    IF outcome.kind = "return"
    THEN IF Unserializable(outcome.result)
         THEN ToolResult(tool_call.tool, JFalse, JStr(<<"unexpected_error_occurred">>),
                         JStr(<<"Object", " ", "is", " ", "not", " ", "JSON", " ", "serializable">>))
         ELSE ToolResult(tool_call.tool, JTrue, JStr(JsonDumps(outcome.result)), JNull)
    ELSE IF outcome.exc = "ToolCallError"
    THEN ToolResult(tool_call.tool, JFalse, JStr(<<"tool_execution_failed">>), JStr(outcome.msg))
    ELSE IF outcome.exc = "ToolTimeoutError"
    THEN outcome
    ELSE ToolResult(tool_call.tool, JFalse, JStr(<<"unexpected_error_occurred">>), JStr(outcome.msg))

\* execute_tool reporting a failure in content and leaving error unset
execute_tool_ErrorInContent(tool_call, outcome) ==
    IF outcome.kind = "return"
    THEN IF Unserializable(outcome.result)
         THEN ToolResult(tool_call.tool, JFalse, JStr(<<"unexpected_error_occurred">>),
                         JStr(<<"Object", " ", "is", " ", "not", " ", "JSON", " ", "serializable">>))
         ELSE ToolResult(tool_call.tool, JTrue, JStr(JsonDumps(outcome.result)), JNull)
    ELSE ToolResult(tool_call.tool, JFalse, JStr(outcome.msg), JNull)

\* loop.py 383-442.  Only ToolCallError is caught by the first handler; the
\* other ToolClientError kinds and the encoder's TypeError reach the second.
execute_tool(tool_call, outcome) ==
    IF outcome.kind = "return"
    THEN IF Unserializable(outcome.result)
         THEN ToolResult(tool_call.tool, JFalse, JStr(<<"unexpected_error_occurred">>),
                         JStr(<<"Object", " ", "is", " ", "not", " ", "JSON", " ", "serializable">>))
         ELSE ToolResult(tool_call.tool, JTrue, JStr(JsonDumps(outcome.result)), JNull)
    ELSE IF outcome.exc = "ToolCallError"
    THEN ToolResult(tool_call.tool, JFalse, JStr(<<"tool_execution_failed">>), JStr(outcome.msg))
    ELSE ToolResult(tool_call.tool, JFalse, JStr(<<"unexpected_error_occurred">>), JStr(outcome.msg))

\* ------------------------------------------------------------------------
\* client/llm/ollama_client.py: ollama_chat
\* ------------------------------------------------------------------------
\* body of a successful /api/chat response carrying the reply text
ChatBody(reply) ==
    JsonDumps(JObj(<< [k |-> <<"model">>, val |-> JStr(<<"gemma3:4b">>)],
                      [k |-> <<"message">>,
                       val |-> JObj(<< [k |-> <<"role">>, val |-> JStr(<<"assistant">>)],
                                       [k |-> <<"content">>, val |-> JStr(reply)] >>)],
                      [k |-> <<"done">>, val |-> JTrue] >>))

LLMHttpOutcomes ==
    { HttpResponse(200, ChatBody(r)) : r \in LLMReplies }
    \cup { HttpResponse(200, <<"{", "}">>),
           HttpResponse(200, <<"[", "]">>),
           HttpResponse(200, <<"not", " ", "json">>),
           HttpResponse(500, <<>>),
           [kind |-> "Timeout"],
           [kind |-> "ConnectionError"],
           [kind |-> "RequestException"] }

\* ollama_client.py 173-225: the decoded response, or the OllamaError raised
ollama_chat(http) ==
    IF http.kind = "ConnectionError"
    THEN Raise("OllamaConnectionError", <<"connection_to_ollama_failed">>)
    ELSE IF http.kind = "Timeout"
    THEN Raise("OllamaTimeoutError", <<"ollama_api_timed_out">>)
    ELSE IF http.kind = "RequestException"
    THEN Raise("OllamaAPIError", <<"unexpected_request_error">>)
    ELSE IF http.status /= 200
    THEN Raise("OllamaAPIError", <<"ollama_api_error", " ", StatusWord(http.status)>>)
    ELSE IF ~JsonLoads(http.text).ok
    THEN Raise("OllamaAPIError", <<"response_is_not_json">>)
    ELSE Return(JsonLoads(http.text).val)

\* CALL_SCHEMA with the tool_result kind left in the enum
CALL_SCHEMA_WithToolResult ==
    [kinds |-> {"tool_call", "tool_result", "final_answer", "clarify"},
     required |-> [tool_call |-> {"tool", "arguments"},
                   final_answer |-> {"content"},
                   clarify |-> {"question"}]]

\* loop.py 48-109: CALL_SCHEMA, the kinds its enum admits and the fields
\* each kind requires
CALL_SCHEMA ==
    [kinds |-> {"tool_call", "final_answer", "clarify"},
     required |-> [tool_call |-> {"tool", "arguments"},
                   final_answer |-> {"content"},
                   clarify |-> {"question"}]]

\* ------------------------------------------------------------------------
\* client/orchestrator/loop.py: run_loop as a state machine
\* ------------------------------------------------------------------------
\* largest max_iterations argument explored
MaxIterations == 2

UserQueries == { <<"weather", " ", "in", " ", "Tokyo?">> }

\* the catalog fetch_tools returns, or the RegistryError it raises
ToolCatalog ==
    JObj(<< [k |-> <<"tools">>,
             val |-> JArr(<< JObj(<<[k |-> <<"name">>, val |-> JStr(<<"get_weather">>)]>>),
                             JObj(<<[k |-> <<"name">>, val |-> JStr(<<"calculate">>)]>>) >>)] >>)

RegistryOutcomes ==
    { Return(ToolCatalog), Raise("RegistryConnectionError", <<"registry_connection_error">>) }

\* prompts/prompt_builder.py 551-567: the prompt text embeds the tool names
RECURSIVE ToolLines(_)
ToolLines(tools) ==
    IF tools = <<>> THEN <<>>
    ELSE <<"\n", "-", " ">> \o DictGet(Head(tools), <<"name">>).v \o ToolLines(Tail(tools))

new_build_system_prompt(tools) == <<"system_prompt">> \o ToolLines(tools)

Message(role, content) == [role |-> role, content |-> content]

NoAction == [kind |-> "none"]

NoOutcome == [kind |-> "running"]

Returned(value) == [kind |-> "return", value |-> value]

\* an exception leaving run_loop: its class, the message template of the
\* f-string that built error_msg, and the values interpolated into it
Raised(exc, template, args) ==
    [kind |-> "raise", exc |-> exc, template |-> template, args |-> args]

VARIABLES
    pc,                \* position in run_loop
    max_iterations,    \* argument
    user_query,        \* argument
    iteration,         \* loop variable of "for iteration in range(max_iterations)"
    messages,          \* the conversation history
    llm_response_text, \* local of run_loop
    action,            \* local of run_loop
    outcome,           \* how run_loop ended
    llm_requests,      \* every ollama_chat call issued: messages and format_schema
    parse_log,         \* every parse_llm_response / safe_parse_json call made
    llm_outcomes,      \* how each ollama_chat call ended: returned or the error raised
    tool_requests,     \* every call_tool call issued
    tool_outcomes,     \* how each call_tool call ended: the result or the error raised
    tool_results,      \* the ToolResult execute_tool returned for each
    init_log,          \* how fetch_tools and new_build_system_prompt ended
    cancel_requested,  \* the caller of run_loop wants the run aborted
    repair_input,      \* argument of a safe_parse_json call made on its own
    repair_output,     \* what that call returned or raised
    parse_input,       \* argument of a parse_llm_response call made on its own
    parse_output,      \* what that call returned or raised
    retry_log,         \* how each call_tool attempt of a call_tool_with_retry call ended
    retry_result,      \* what call_tool_with_retry returned or raised
    cache_file,        \* content of the registry cache file tools_cache.json
    now,               \* the clock read by datetime.now
    fetch_call,        \* the last fetch_tools call made on its own and how it ended
    fetches            \* number of fetch_tools calls made on their own

\* state that is not run_loop's
\* state of the registry module
registry_vars == << cache_file, now, fetch_call, fetches >>

function_vars == << parse_input, parse_output, retry_log, retry_result, registry_vars >>

other_vars == << cancel_requested, repair_input, repair_output, function_vars >>

vars == << pc, max_iterations, user_query, iteration, messages, llm_response_text,
           action, outcome, llm_requests, parse_log, llm_outcomes, tool_requests,
           tool_outcomes, tool_results, init_log, cancel_requested, repair_input,
           repair_output, function_vars >>

llm_calls == Len(llm_requests)

tool_calls == Len(tool_requests)

\* no fetch_tools call is made on its own
NoRegistryCall ==
    /\ cache_file = [kind |-> "absent"]
    /\ now = 0
    /\ fetch_call = NoOutcome
    /\ fetches = 0

\* no parse_llm_response, call_tool_with_retry or fetch_tools call is made
\* on its own
NoFunctionCall ==
    /\ parse_input = <<>>
    /\ parse_output = NoOutcome
    /\ retry_log = <<>>
    /\ retry_result = NoOutcome
    /\ NoRegistryCall

Init ==
    /\ pc = "init"
    /\ max_iterations \in 0..MaxIterations
    /\ user_query \in UserQueries
    /\ iteration = 0
    /\ messages = <<>>
    /\ llm_response_text = <<>>
    /\ action = NoAction
    /\ outcome = NoOutcome
    /\ llm_requests = <<>>
    /\ parse_log = <<>>
    /\ llm_outcomes = <<>>
    /\ tool_requests = <<>>
    /\ tool_outcomes = <<>>
    /\ tool_results = <<>>
    /\ init_log = <<>>
    /\ cancel_requested = FALSE
    /\ repair_input = <<>>
    /\ repair_output = NoOutcome
    /\ NoFunctionCall

\* run_loop ends: nothing runs after a return or a raise
Finish(result) ==
    /\ pc' = "done"
    /\ outcome' = result

\* one collaborator call of the initialization step and whether it returned
InitCall(op, ok) == [op |-> op, ok |-> ok]

\* Initialize going on with an empty catalog when fetch_tools fails
Initialize_ContinuesAfterFailure ==
    /\ pc = "init"
    /\ \E registry \in RegistryOutcomes, prompt_fails \in BOOLEAN :
         IF registry.kind = "raise"
         THEN /\ ~prompt_fails
              /\ init_log' = << InitCall("fetch_tools", FALSE) >>
              /\ messages' = << Message("system", new_build_system_prompt(<<>>)),
                                Message("user", user_query) >>
              /\ pc' = "for"
              /\ UNCHANGED outcome
         ELSE IF prompt_fails
         THEN /\ init_log' = << InitCall("fetch_tools", TRUE),
                                InitCall("new_build_system_prompt", FALSE) >>
              /\ Finish(Raised("OrchestratorError", "init_error", <<<<"prompt_build_failed">>>>))
              /\ UNCHANGED messages
         ELSE /\ init_log' = << InitCall("fetch_tools", TRUE),
                                InitCall("new_build_system_prompt", TRUE) >>
              /\ messages' =
                    << Message("system",
                               new_build_system_prompt(DictGet(registry.result, <<"tools">>).v)),
                       Message("user", user_query) >>
              /\ pc' = "for"
              /\ UNCHANGED outcome
    /\ UNCHANGED << other_vars, max_iterations, user_query, iteration, llm_response_text,
                    action, llm_requests, parse_log, llm_outcomes, tool_requests,
                    tool_outcomes, tool_results >>

\* Initialize letting the registry's exception through unwrapped
Initialize_LeaksRegistryError ==
    /\ pc = "init"
    /\ \E registry \in RegistryOutcomes, prompt_fails \in BOOLEAN :
         IF registry.kind = "raise"
         THEN /\ ~prompt_fails
              /\ init_log' = << InitCall("fetch_tools", FALSE) >>
              /\ Finish(Raised(registry.exc, "init_error", <<registry.msg>>))
              /\ UNCHANGED messages
         ELSE IF prompt_fails
         THEN /\ init_log' = << InitCall("fetch_tools", TRUE),
                                InitCall("new_build_system_prompt", FALSE) >>
              /\ Finish(Raised("OrchestratorError", "init_error", <<<<"prompt_build_failed">>>>))
              /\ UNCHANGED messages
         ELSE /\ init_log' = << InitCall("fetch_tools", TRUE),
                                InitCall("new_build_system_prompt", TRUE) >>
              /\ messages' =
                    << Message("system",
                               new_build_system_prompt(DictGet(registry.result, <<"tools">>).v)),
                       Message("user", user_query) >>
              /\ pc' = "for"
              /\ UNCHANGED outcome
    /\ UNCHANGED << other_vars, max_iterations, user_query, iteration, llm_response_text,
                    action, llm_requests, parse_log, llm_outcomes, tool_requests,
                    tool_outcomes, tool_results >>

\* loop.py 184-206: fetch the catalog, build the prompt, seed the history;
\* any exception of the step is wrapped into OrchestratorError
Initialize ==
    /\ pc = "init"
    /\ \E registry \in RegistryOutcomes, prompt_fails \in BOOLEAN :
         IF registry.kind = "raise"
         THEN /\ ~prompt_fails
              /\ init_log' = << InitCall("fetch_tools", FALSE) >>
              /\ Finish(Raised("OrchestratorError", "init_error", <<registry.msg>>))
              /\ UNCHANGED messages
         ELSE IF prompt_fails
         THEN /\ init_log' = << InitCall("fetch_tools", TRUE),
                                InitCall("new_build_system_prompt", FALSE) >>
              /\ Finish(Raised("OrchestratorError", "init_error", <<<<"prompt_build_failed">>>>))
              /\ UNCHANGED messages
         ELSE /\ init_log' = << InitCall("fetch_tools", TRUE),
                                InitCall("new_build_system_prompt", TRUE) >>
              /\ messages' =
                    << Message("system",
                               new_build_system_prompt(DictGet(registry.result, <<"tools">>).v)),
                       Message("user", user_query) >>
              /\ pc' = "for"
              /\ UNCHANGED outcome
    /\ UNCHANGED << other_vars, max_iterations, user_query, iteration, llm_response_text,
                    action, llm_requests, parse_log, llm_outcomes, tool_requests,
                    tool_outcomes, tool_results >>

\* LoopHead running one iteration too many
LoopHead_OffByOne ==
    /\ pc = "for"
    /\ IF iteration <= max_iterations
       THEN pc' = "query" /\ UNCHANGED outcome
       ELSE Finish(Raised("MaxIterationsReached", "max_iterations", <<max_iterations>>))
    /\ UNCHANGED << other_vars, init_log, max_iterations, user_query, iteration, messages, llm_response_text,
                    action, llm_requests, parse_log, llm_outcomes, tool_requests,
                    tool_outcomes, tool_results >>

\* loop.py 209 and 345-351: next iteration, or the budget is exhausted
LoopHead ==
    /\ pc = "for"
    /\ IF iteration < max_iterations
       THEN pc' = "query" /\ UNCHANGED outcome
       ELSE Finish(Raised("MaxIterationsReached", "max_iterations", <<max_iterations>>))
    /\ UNCHANGED << other_vars, init_log, max_iterations, user_query, iteration, messages, llm_response_text,
                    action, llm_requests, parse_log, llm_outcomes, tool_requests,
                    tool_outcomes, tool_results >>

\* loop.py 221-227: the LLM call is sent with the history and CALL_SCHEMA
QueryLLM ==
    /\ pc = "query"
    /\ llm_requests' = Append(llm_requests,
                              [messages |-> messages, format_schema |-> CALL_SCHEMA])
    /\ pc' = "llm_wait"
    /\ UNCHANGED << other_vars, init_log, max_iterations, user_query, iteration, messages, llm_response_text,
                    action, outcome, parse_log, llm_outcomes, tool_requests, tool_outcomes,
                    tool_results >>

\* loop.py 246: call_response.get("message", {}).get("content", "")
ResponseContent(call_response) ==
    IF ~IsObj(call_response) THEN Raise("AttributeError", <<>>)
    ELSE IF ~HasKey(call_response, <<"message">>) THEN Return(<<>>)
    ELSE IF ~IsObj(DictGet(call_response, <<"message">>)) THEN Raise("AttributeError", <<>>)
    ELSE IF ~HasKey(DictGet(call_response, <<"message">>), <<"content">>) THEN Return(<<>>)
    ELSE Return(DictGet(DictGet(call_response, <<"message">>), <<"content">>).v)

\* what the log keeps of an ollama_chat call: returned, or the error class
LLMOutcome(call_response) ==
    IF call_response.kind = "raise"
    THEN [kind |-> "raise", exc |-> call_response.exc]
    ELSE [kind |-> "return", exc |-> "none"]

\* LLMReturn treating a failed call as an empty reply
LLMReturn_SwallowsFailure ==
    /\ pc = "llm_wait"
    /\ \E call_response \in { ollama_chat(http) : http \in LLMHttpOutcomes } :
         LET content == IF call_response.kind = "raise"
                        THEN Return(<<>>)
                        ELSE ResponseContent(call_response.result)
         IN
         /\ llm_outcomes' = Append(llm_outcomes, LLMOutcome(call_response))
         /\ IF content.kind = "raise"
            THEN /\ Finish(Raised("OrchestratorError", "unexpected", <<content.exc>>))
                 /\ UNCHANGED llm_response_text
            ELSE /\ llm_response_text' = content.result
                 /\ pc' = "parse"
                 /\ UNCHANGED outcome
    /\ UNCHANGED << other_vars, init_log, max_iterations, user_query, iteration, messages, action,
                    llm_requests, parse_log, tool_requests, tool_outcomes, tool_results >>

\* loop.py 228-248 and 338-343: the LLM call returns or fails
LLMReturn ==
    /\ pc = "llm_wait"
    /\ \E call_response \in { ollama_chat(http) : http \in LLMHttpOutcomes } :
         LET content == IF call_response.kind = "raise"
                        THEN call_response
                        ELSE ResponseContent(call_response.result)
         IN
         /\ llm_outcomes' = Append(llm_outcomes, LLMOutcome(call_response))
         /\ IF call_response.kind = "raise"
            THEN /\ Finish(Raised("OrchestratorError",
                                  IF call_response.exc = "OllamaConnectionError"
                                  THEN "llm_connection"
                                  ELSE IF call_response.exc = "OllamaTimeoutError"
                                  THEN "llm_timeout"
                                  ELSE "llm_error",
                                  <<call_response.msg>>))
                 /\ UNCHANGED llm_response_text
            ELSE IF content.kind = "raise"
            THEN /\ Finish(Raised("OrchestratorError", "unexpected", <<content.exc>>))
                 /\ UNCHANGED llm_response_text
            ELSE /\ llm_response_text' = content.result
                 /\ pc' = "parse"
                 /\ UNCHANGED outcome
    /\ UNCHANGED << other_vars, init_log, max_iterations, user_query, iteration, messages, action,
                    llm_requests, parse_log, tool_requests, tool_outcomes, tool_results >>

\* one parse_llm_response or safe_parse_json call: its input, whether it
\* returned, and the kind of variant returned or the exception raised
ParseEntry(op, text, r) ==
    [iteration |-> iteration, op |-> op, text |-> text, ok |-> r.ok,
     result |-> IF ~r.ok THEN r.exc ELSE IF op = "repair" THEN "text" ELSE r.value.kind]

\* ParseResponse repairing every reply before parsing it
ParseResponse_RepairsFirst ==
    /\ pc = "parse"
    /\ \E fixed_json \in { safe_parse_json(llm_response_text) } :
       LET e1 == ParseEntry("repair", llm_response_text, fixed_json) IN
       IF ~fixed_json.ok
       THEN /\ parse_log' = Append(parse_log, e1)
            /\ Finish(Raised("InvalidResponseFormat", "repair_failed", <<fixed_json.exc>>))
            /\ UNCHANGED action
       ELSE \E second \in { parse_llm_response(fixed_json.text) } :
            LET e2 == ParseEntry("parse", fixed_json.text, second) IN
            /\ parse_log' = parse_log \o <<e1, e2>>
            /\ IF second.ok
               THEN /\ action' = second.value
                    /\ pc' = "dispatch"
                    /\ UNCHANGED outcome
               ELSE /\ Finish(Raised("InvalidResponseFormat", "repair_failed",
                                     <<second.exc>>))
                    /\ UNCHANGED action
    /\ UNCHANGED << other_vars, init_log, max_iterations, user_query, iteration, messages, llm_response_text,
                    llm_requests, llm_outcomes, tool_requests, tool_outcomes, tool_results >>

\* ParseResponse with the catch-all handler of the iteration placed before
\* the handler that re-raises the typed failures
ParseResponse_RewrapsInvalidFormat ==
    /\ pc = "parse"
    /\ \E first \in { parse_llm_response(llm_response_text) } :
       LET e1 == ParseEntry("parse", llm_response_text, first) IN
       IF first.ok
       THEN /\ action' = first.value
            /\ parse_log' = Append(parse_log, e1)
            /\ pc' = "dispatch"
            /\ UNCHANGED outcome
       ELSE IF first.exc = "ValueError"
       THEN \E fixed_json \in { safe_parse_json(llm_response_text) } :
            LET e2 == ParseEntry("repair", llm_response_text, fixed_json) IN
            IF ~fixed_json.ok
            THEN /\ parse_log' = parse_log \o <<e1, e2>>
                 /\ Finish(Raised("OrchestratorError", "unexpected", <<"InvalidResponseFormat">>))
                 /\ UNCHANGED action
            ELSE \E second \in { parse_llm_response(fixed_json.text) } :
                 LET e3 == ParseEntry("parse", fixed_json.text, second) IN
                 /\ parse_log' = parse_log \o <<e1, e2, e3>>
                 /\ IF second.ok
                    THEN /\ action' = second.value
                         /\ pc' = "dispatch"
                         /\ UNCHANGED outcome
                    ELSE /\ Finish(Raised("OrchestratorError", "unexpected",
                                          <<"InvalidResponseFormat">>))
                         /\ UNCHANGED action
       ELSE /\ parse_log' = Append(parse_log, e1)
            /\ Finish(Raised("OrchestratorError", "unexpected", <<first.exc>>))
            /\ UNCHANGED action
    /\ UNCHANGED << other_vars, init_log, max_iterations, user_query, iteration, messages, llm_response_text,
                    llm_requests, llm_outcomes, tool_requests, tool_outcomes, tool_results >>

\* loop.py 252-269 and 334-343: parse the reply, repair and parse again
\* after a ValueError; any other exception of the first parse reaches the
\* outer "except Exception"
ParseResponse ==
    /\ pc = "parse"
    /\ \E first \in { parse_llm_response(llm_response_text) } :
       LET e1 == ParseEntry("parse", llm_response_text, first) IN
       IF first.ok
       THEN /\ action' = first.value
            /\ parse_log' = Append(parse_log, e1)
            /\ pc' = "dispatch"
            /\ UNCHANGED outcome
       ELSE IF first.exc = "ValueError"
       THEN \E fixed_json \in { safe_parse_json(llm_response_text) } :
            LET e2 == ParseEntry("repair", llm_response_text, fixed_json) IN
            IF ~fixed_json.ok
            THEN /\ parse_log' = parse_log \o <<e1, e2>>
                 /\ Finish(Raised("InvalidResponseFormat", "repair_failed", <<fixed_json.exc>>))
                 /\ UNCHANGED action
            ELSE \E second \in { parse_llm_response(fixed_json.text) } :
                 LET e3 == ParseEntry("parse", fixed_json.text, second) IN
                 /\ parse_log' = parse_log \o <<e1, e2, e3>>
                 /\ IF second.ok
                    THEN /\ action' = second.value
                         /\ pc' = "dispatch"
                         /\ UNCHANGED outcome
                    ELSE /\ Finish(Raised("InvalidResponseFormat", "repair_failed",
                                          <<second.exc>>))
                         /\ UNCHANGED action
       ELSE /\ parse_log' = Append(parse_log, e1)
            /\ Finish(Raised("OrchestratorError", "unexpected", <<first.exc>>))
            /\ UNCHANGED action
    /\ UNCHANGED << other_vars, init_log, max_iterations, user_query, iteration, messages, llm_response_text,
                    llm_requests, llm_outcomes, tool_requests, tool_outcomes, tool_results >>

\* Dispatch returning the reply text instead of the validated content
Dispatch_ReturnsReplyText ==
    /\ pc = "dispatch"
    /\ IF action.kind = "final_answer"
       THEN Finish(Returned(llm_response_text))
       ELSE IF action.kind = "tool_call"
       THEN pc' = "execute_tool" /\ UNCHANGED outcome
       ELSE IF action.kind = "clarify"
       THEN Finish(Raised("OrchestratorError", "clarification",
                          <<action.question, action.missing_params>>))
       ELSE Finish(Raised("InvalidResponseFormat", "unknown_response_type",
                          <<"ToolResult">>))
    /\ UNCHANGED << other_vars, init_log, max_iterations, user_query, iteration, messages, llm_response_text,
                    action, llm_requests, parse_log, llm_outcomes, tool_requests,
                    tool_outcomes, tool_results >>

\* Dispatch with no clarification branch: the variant falls to the last arm
Dispatch_NoClarifyBranch ==
    /\ pc = "dispatch"
    /\ IF action.kind = "final_answer"
       THEN Finish(Returned(action.content))
       ELSE IF action.kind = "tool_call"
       THEN pc' = "execute_tool" /\ UNCHANGED outcome
       ELSE Finish(Raised("InvalidResponseFormat", "unknown_response_type",
                          <<"ToolResult">>))
    /\ UNCHANGED << other_vars, init_log, max_iterations, user_query, iteration, messages, llm_response_text,
                    action, llm_requests, parse_log, llm_outcomes, tool_requests,
                    tool_outcomes, tool_results >>

\* Dispatch asking the LLM again after a clarification
Dispatch_ClarifyRetries ==
    /\ pc = "dispatch"
    /\ IF action.kind = "final_answer"
       THEN Finish(Returned(action.content))
       ELSE IF action.kind = "tool_call"
       THEN pc' = "execute_tool" /\ UNCHANGED outcome
       ELSE IF action.kind = "clarify"
       THEN pc' = "query" /\ UNCHANGED outcome
       ELSE Finish(Raised("InvalidResponseFormat", "unknown_response_type",
                          <<"ToolResult">>))
    /\ UNCHANGED << other_vars, init_log, max_iterations, user_query, iteration, messages,
                    llm_response_text, action, llm_requests, parse_log, llm_outcomes,
                    tool_requests, tool_outcomes, tool_results >>

\* the tool names of the catalog fetch_tools returned
CatalogNames ==
    { ToolCatalog.v[1].val.v[i].v[1].val.v : i \in 1..Len(ToolCatalog.v[1].val.v) }

\* Dispatch refusing a tool the catalog does not list
Dispatch_ChecksCatalog ==
    /\ pc = "dispatch"
    /\ IF action.kind = "final_answer"
       THEN Finish(Returned(action.content))
       ELSE IF action.kind = "tool_call" /\ action.tool \in CatalogNames
       THEN pc' = "execute_tool" /\ UNCHANGED outcome
       ELSE IF action.kind = "tool_call"
       THEN Finish(Raised("ToolExecutionFailed", "unknown_tool", <<action.tool>>))
       ELSE IF action.kind = "clarify"
       THEN Finish(Raised("OrchestratorError", "clarification",
                          <<action.question, action.missing_params>>))
       ELSE Finish(Raised("InvalidResponseFormat", "unknown_response_type",
                          <<"ToolResult">>))
    /\ UNCHANGED << other_vars, init_log, max_iterations, user_query, iteration, messages, llm_response_text,
                    action, llm_requests, parse_log, llm_outcomes, tool_requests,
                    tool_outcomes, tool_results >>

\* Dispatch appending the assistant turn of every parsed reply
Dispatch_AppendsAssistantTurn ==
    /\ pc = "dispatch"
    /\ messages' = Append(messages, Message("assistant", JsonDumps(model_dump(action))))
    /\ IF action.kind = "final_answer"
       THEN Finish(Returned(action.content))
       ELSE IF action.kind = "tool_call"
       THEN pc' = "execute_tool" /\ UNCHANGED outcome
       ELSE IF action.kind = "clarify"
       THEN Finish(Raised("OrchestratorError", "clarification",
                          <<action.question, action.missing_params>>))
       ELSE Finish(Raised("InvalidResponseFormat", "unknown_response_type",
                          <<"ToolResult">>))
    /\ UNCHANGED << other_vars, init_log, max_iterations, user_query, iteration, llm_response_text,
                    action, llm_requests, parse_log, llm_outcomes, tool_requests,
                    tool_outcomes, tool_results >>

\* loop.py 274-332: dispatch on the type of the parsed action
Dispatch ==
    /\ pc = "dispatch"
    /\ IF action.kind = "final_answer"
       THEN Finish(Returned(action.content))
       ELSE IF action.kind = "tool_call"
       THEN pc' = "execute_tool" /\ UNCHANGED outcome
       ELSE IF action.kind = "clarify"
       THEN Finish(Raised("OrchestratorError", "clarification",
                          <<action.question, action.missing_params>>))
       ELSE Finish(Raised("InvalidResponseFormat", "unknown_response_type",
                          <<"ToolResult">>))
    /\ UNCHANGED << other_vars, init_log, max_iterations, user_query, iteration, messages, llm_response_text,
                    action, llm_requests, parse_log, llm_outcomes, tool_requests,
                    tool_outcomes, tool_results >>

\* CallTool going on to the next iteration without waiting for the tool
CallTool_FireAndForget ==
    /\ pc = "execute_tool"
    /\ tool_requests' = Append(tool_requests,
                               [iteration |-> iteration, tool_name |-> action.tool,
                                arguments |-> action.arguments])
    /\ messages' = Append(messages, Message("assistant", JsonDumps(model_dump(action))))
    /\ iteration' = iteration + 1
    /\ pc' = "for"
    /\ UNCHANGED << other_vars, init_log, max_iterations, user_query, llm_response_text,
                    action, outcome, llm_requests, parse_log, llm_outcomes, tool_outcomes,
                    tool_results >>

\* loop.py 289 and 399-409: execute_tool issues the call_tool call
CallTool ==
    /\ pc = "execute_tool"
    /\ tool_requests' = Append(tool_requests,
                               [iteration |-> iteration, tool_name |-> action.tool,
                                arguments |-> action.arguments])
    /\ pc' = "tool_wait"
    /\ UNCHANGED << other_vars, init_log, max_iterations, user_query, iteration, messages, llm_response_text,
                    action, outcome, llm_requests, parse_log, llm_outcomes, tool_outcomes,
                    tool_results >>

\* HistoryAfterTool appending the tool result before the assistant turn
HistoryAfterTool_ResultFirst(history, tool_call, tool_result) ==
    history \o << Message("user", JsonDumps(model_dump(tool_result))),
                  Message("assistant", JsonDumps(model_dump(tool_call))) >>

\* HistoryAfterTool appending only the tool result
HistoryAfterTool_ResultOnly(history, tool_call, tool_result) ==
    history \o << Message("user", JsonDumps(model_dump(tool_result))) >>

\* loop.py 300-307: the assistant turn and the tool-result turn
HistoryAfterTool(history, tool_call, tool_result) ==
    history \o << Message("assistant", JsonDumps(model_dump(tool_call))),
                  Message("user", JsonDumps(model_dump(tool_result))) >>

\* ToolReturn raising ToolExecutionFailed when the tool call failed
ToolReturn_AbortsOnFailure ==
    /\ pc = "tool_wait"
    /\ \E result \in ToolOutcomes(action.tool) :
         \E tool_result \in { execute_tool(action, result) } :
         /\ tool_outcomes' = Append(tool_outcomes, result)
         /\ IF tool_result.kind = "raise"
            THEN /\ Finish(Raised("OrchestratorError", "unexpected", <<tool_result.exc>>))
                 /\ UNCHANGED << tool_results, messages, iteration >>
            ELSE IF tool_result.ok = JFalse
            THEN /\ Finish(Raised("ToolExecutionFailed", "tool_failed", <<tool_result.error.v>>))
                 /\ UNCHANGED << tool_results, messages, iteration >>
            ELSE /\ tool_results' = Append(tool_results, tool_result)
                 /\ messages' = HistoryAfterTool(messages, action, tool_result)
                 /\ iteration' = iteration + 1
                 /\ pc' = "for"
                 /\ UNCHANGED outcome
    /\ UNCHANGED << other_vars, init_log, max_iterations, user_query, llm_response_text, action,
                    llm_requests, parse_log, llm_outcomes, tool_requests >>

\* ToolReturn issuing the tool call again when it failed
ToolReturn_RetriesFailure ==
    /\ pc = "tool_wait"
    /\ \E result \in ToolOutcomes(action.tool) :
         \E tool_result \in { execute_tool(action, result) } :
         /\ tool_outcomes' = Append(tool_outcomes, result)
         /\ IF tool_result.kind = "raise"
            THEN /\ Finish(Raised("OrchestratorError", "unexpected", <<tool_result.exc>>))
                 /\ UNCHANGED << tool_results, messages, iteration >>
            ELSE IF tool_result.ok = JFalse /\ Len(tool_outcomes) < iteration + 1
            THEN /\ tool_results' = Append(tool_results, tool_result)
                 /\ pc' = "execute_tool"
                 /\ UNCHANGED << outcome, messages, iteration >>
            ELSE /\ tool_results' = Append(tool_results, tool_result)
                 /\ messages' = HistoryAfterTool(messages, action, tool_result)
                 /\ iteration' = iteration + 1
                 /\ pc' = "for"
                 /\ UNCHANGED outcome
    /\ UNCHANGED << other_vars, init_log, max_iterations, user_query, llm_response_text, action,
                    llm_requests, parse_log, llm_outcomes, tool_requests >>

\* loop.py 289-312, 338-343 and 411-442: call_tool returns or raises and
\* execute_tool wraps it; both turns are appended and the loop continues.
\* An exception leaving execute_tool would reach the outer "except Exception".
ToolReturn ==
    /\ pc = "tool_wait"
    /\ \E result \in ToolOutcomes(action.tool) :
         \E tool_result \in { execute_tool(action, result) } :
         /\ tool_outcomes' = Append(tool_outcomes, result)
         /\ IF tool_result.kind = "raise"
            THEN /\ Finish(Raised("OrchestratorError", "unexpected", <<tool_result.exc>>))
                 /\ UNCHANGED << tool_results, messages, iteration >>
            ELSE /\ tool_results' = Append(tool_results, tool_result)
                 /\ messages' = HistoryAfterTool(messages, action, tool_result)
                 /\ iteration' = iteration + 1
                 /\ pc' = "for"
                 /\ UNCHANGED outcome
    /\ UNCHANGED << other_vars, init_log, max_iterations, user_query, llm_response_text, action,
                    llm_requests, parse_log, llm_outcomes, tool_requests >>

Next ==
    \/ Initialize
    \/ LoopHead
    \/ QueryLLM
    \/ LLMReturn
    \/ ParseResponse
    \/ Dispatch
    \/ CallTool
    \/ ToolReturn

Spec == Init /\ [][Next]_vars

\* run_loop is one sequential Python call: while a step is possible the
\* interpreter takes it, and every outbound call returns or fails
FairSpec == Spec /\ WF_vars(Next)

\* loop.py 140-147: run_loop takes no cancellation token and reads no flag;
\* the caller deciding to abort is visible to nothing inside the run
CallerAborts ==
    /\ pc /= "done"
    /\ ~cancel_requested
    /\ cancel_requested' = TRUE
    /\ UNCHANGED << repair_input, repair_output, function_vars, pc, init_log,
                    max_iterations, user_query,
                    iteration, messages, llm_response_text, action, outcome, llm_requests,
                    parse_log, llm_outcomes, tool_requests, tool_outcomes, tool_results >>

CancelNext ==
    \/ Next
    \/ CallerAborts

\* a run whose caller may decide to abort at any point
CancelSpec == Init /\ [][CancelNext]_vars

\* ------------------------------------------------------------------------
\* safe_parse_json on its own: one call on one text
\* ------------------------------------------------------------------------
\* most characters cut from the end of a reply
MaxCut == 2

BodyFinal ==
    << "{", QUOTE, "kind", QUOTE, ":", QUOTE, "final_answer", QUOTE, ",",
       QUOTE, "content", QUOTE, ":", QUOTE, "ok", QUOTE, "}" >>

BodyNested ==
    << "{", QUOTE, "tool", QUOTE, ":", QUOTE, "calculate", QUOTE, ",",
       QUOTE, "arguments", QUOTE, ":", "{", QUOTE, "a", QUOTE, ":", "1", "}", "}" >>

\* string values holding a brace character
BodyCloseBraceInString ==
    << "{", QUOTE, "content", QUOTE, ":", QUOTE, "}", QUOTE, "}" >>

BodyOpenBraceInString ==
    << "{", QUOTE, "content", QUOTE, ":", QUOTE, "{", QUOTE, "}" >>

\* a reply whose beginning is missing
BodyHeadless == << QUOTE, "a", QUOTE, ":", "1", "}" >>

\* test_loop_unit.py 186: text that is no JSON at all
BodyNotJson == << "this", " ", "is", " ", "not", " ", "json" >>

\* valid JSON that is not an object
BodyArray == << "[", "1", "]" >>

RepairBodies ==
    { BodyFinal, BodyNested, BodyCloseBraceInString, BodyOpenBraceInString, BodyHeadless,
      BodyNotJson, BodyArray }

\* the text with its last k characters missing
Cut(body, k) == SubSeq(body, 1, Len(body) - k)

FenceWraps == { "fenced_json", "fenced", "no_closing", "same_line", "closing_indented" }

Wraps == FenceWraps \cup { "none", "one_line", "closing_only" }

\* the ways a reply body comes wrapped in a markdown code fence
Wrap(w, body) ==
    IF w = "fenced_json" THEN << FENCE, "json", "\n" >> \o body \o << "\n", FENCE >>
    ELSE IF w = "fenced" THEN << FENCE, "\n" >> \o body \o << "\n", FENCE >>
    ELSE IF w = "no_closing" THEN << FENCE, "json", "\n" >> \o body
    ELSE IF w = "same_line" THEN << FENCE, "json", " " >> \o body \o << "\n", FENCE >>
    ELSE IF w = "closing_indented"
    THEN << FENCE, "json", "\n" >> \o body \o << "\n", " ", FENCE, " " >>
    ELSE IF w = "one_line" THEN << FENCE >> \o body \o << FENCE >>
    ELSE IF w = "closing_only" THEN body \o << "\n", FENCE >>
    ELSE body

Pads == { "none", "both" }

\* surrounding whitespace
Pad(p, text) ==
    IF p = "both" THEN << " ", "\n" >> \o text \o << "\n", " " >> ELSE text

RepairInputs ==
    { Pad(p, Wrap(w, Cut(body, k))) :
        p \in Pads, w \in Wraps, body \in RepairBodies, k \in 0..MaxCut }

RepairInit ==
    /\ pc = "repair_call"
    /\ repair_input \in RepairInputs
    /\ repair_output = NoOutcome
    /\ max_iterations = 0
    /\ user_query = <<>>
    /\ iteration = 0
    /\ messages = <<>>
    /\ llm_response_text = <<>>
    /\ action = NoAction
    /\ outcome = NoOutcome
    /\ llm_requests = <<>>
    /\ parse_log = <<>>
    /\ llm_outcomes = <<>>
    /\ tool_requests = <<>>
    /\ tool_outcomes = <<>>
    /\ tool_results = <<>>
    /\ init_log = <<>>
    /\ cancel_requested = FALSE
    /\ NoFunctionCall

\* loop.py 474-523: the call returns the repaired text or raises ValueError
Repair ==
    /\ pc = "repair_call"
    /\ repair_output' = safe_parse_json(repair_input)
    /\ pc' = "repair_done"
    /\ UNCHANGED << repair_input, function_vars, cancel_requested, init_log,
                    max_iterations, user_query,
                    iteration, messages, llm_response_text, action, outcome, llm_requests,
                    parse_log, llm_outcomes, tool_requests, tool_outcomes, tool_results >>

RepairNext == Repair

RepairSpec == RepairInit /\ [][RepairNext]_vars

\* ------------------------------------------------------------------------
\* parse_llm_response on its own: one call on one text
\* ------------------------------------------------------------------------
\* marks a member left out of an object
Absent == [t |-> "absent", v |-> <<>>]

\* the object with the members that are given
ObjectOf(pairs) == JObj(SelectSeq(pairs, LAMBDA p : p.val /= Absent))

\* values tried for a required string field: left out, a name, the name
\* with spaces around it, blank, empty, not a string
TextValues ==
    { Absent, JStr(<<"get_weather">>), JStr(<<" ", "get_weather", " ">>),
      JStr(<<" ">>), JStr(<<>>), JNum("1") }

\* values tried for arguments: left out, mappings, not a mapping
ArgumentsValues ==
    { Absent, JObj(<<>>), JObj(<<[k |-> <<"city">>, val |-> JStr(<<"Tokyo">>)]>>),
      JArr(<<>>), JStr(<<"x">>) }

\* decoded reply values: every variant with its fields varied, objects
\* with a missing or unknown kind, and JSON values that are no object
ParseData ==
    { ObjectOf(<< [k |-> <<"kind">>, val |-> JStr(<<"tool_call">>)],
                  [k |-> <<"tool">>, val |-> t],
                  [k |-> <<"arguments">>, val |-> a] >>)
        : t \in TextValues, a \in ArgumentsValues }
    \cup { ObjectOf(<< [k |-> <<"kind">>, val |-> JStr(<<"final_answer">>)],
                       [k |-> <<"content">>, val |-> c] >>)
             : c \in TextValues }
    \cup { ObjectOf(<< [k |-> <<"kind">>, val |-> JStr(<<"clarify">>)],
                       [k |-> <<"question">>, val |-> q],
                       [k |-> <<"missing_params">>, val |-> m] >>)
             : q \in TextValues, m \in { Absent, JArr(<<JStr(<<"city">>)>>) } }
    \cup { ObjectOf(<< [k |-> <<"kind">>, val |-> JStr(<<"tool_result">>)],
                       [k |-> <<"tool">>, val |-> t],
                       [k |-> <<"ok">>, val |-> ok] >>)
             : t \in TextValues, ok \in { Absent, JTrue } }
    \cup { ObjectOf(<< [k |-> <<"kind">>, val |-> kind],
                       [k |-> <<"tool">>, val |-> JStr(<<"get_weather">>)],
                       [k |-> <<"arguments">>, val |-> JObj(<<>>)] >>)
             : kind \in { Absent, JStr(<<"other">>), JNull } }
    \cup { JArr(<<>>), JNum("1"), JStr(<<"x">>), JNull }

\* whitespace around the reply text: none, JSON whitespace, a no-break space
ParsePads == { "none", "both", "nbsp" }

ParsePad(p, text) ==
    IF p = "nbsp" THEN << NBSP >> \o text \o << NBSP >> ELSE Pad(p, text)

ParseInputs ==
    { ParsePad(p, JsonDumps(d)) : p \in ParsePads, d \in ParseData }
    \cup { BodyNotJson, <<>>, Cut(BodyFinal, 1) }

ParseInit ==
    /\ pc = "parse_call"
    /\ parse_input \in ParseInputs
    /\ parse_output = NoOutcome
    /\ retry_log = <<>>
    /\ retry_result = NoOutcome
    /\ NoRegistryCall
    /\ repair_input = <<>>
    /\ repair_output = NoOutcome
    /\ max_iterations = 0
    /\ user_query = <<>>
    /\ iteration = 0
    /\ messages = <<>>
    /\ llm_response_text = <<>>
    /\ action = NoAction
    /\ outcome = NoOutcome
    /\ llm_requests = <<>>
    /\ parse_log = <<>>
    /\ llm_outcomes = <<>>
    /\ tool_requests = <<>>
    /\ tool_outcomes = <<>>
    /\ tool_results = <<>>
    /\ init_log = <<>>
    /\ cancel_requested = FALSE

\* tool_call.py 336-374: the call returns a variant or raises
Parse ==
    /\ pc = "parse_call"
    /\ parse_output' = parse_llm_response(parse_input)
    /\ pc' = "parse_done"
    /\ UNCHANGED << parse_input, retry_log, retry_result, registry_vars, repair_input, repair_output,
                    cancel_requested, init_log, max_iterations, user_query,
                    iteration, messages, llm_response_text, action, outcome, llm_requests,
                    parse_log, llm_outcomes, tool_requests, tool_outcomes, tool_results >>

ParseNext == Parse

ParseSpec == ParseInit /\ [][ParseNext]_vars

\* ------------------------------------------------------------------------
\* client/api/tool_client.py: call_tool_with_retry on its own
\* ------------------------------------------------------------------------
\* tool_client.py 199: stop=stop_after_attempt(3)
stop_after_attempt == 3

\* retry_if_exception_type retrying on every ToolClientError
retry_if_exception_type_AnyToolClientError ==
    { "ToolCallError", "ToolTimeoutError", "ToolNotFoundError", "ToolValidationError",
      "ToolServerError" }

\* tool_client.py 201: retry=retry_if_exception_type((ToolCallError, ToolTimeoutError))
retry_if_exception_type == { "ToolCallError", "ToolTimeoutError" }

\* the tool the call names
RetryToolName == << "get_weather" >>

RetryInit ==
    /\ pc = "retry_call"
    /\ retry_log = <<>>
    /\ retry_result = NoOutcome
    /\ parse_input = <<>>
    /\ parse_output = NoOutcome
    /\ NoRegistryCall
    /\ repair_input = <<>>
    /\ repair_output = NoOutcome
    /\ max_iterations = 0
    /\ user_query = <<>>
    /\ iteration = 0
    /\ messages = <<>>
    /\ llm_response_text = <<>>
    /\ action = NoAction
    /\ outcome = NoOutcome
    /\ llm_requests = <<>>
    /\ parse_log = <<>>
    /\ llm_outcomes = <<>>
    /\ tool_requests = <<>>
    /\ tool_outcomes = <<>>
    /\ tool_results = <<>>
    /\ init_log = <<>>
    /\ cancel_requested = FALSE

\* tool_client.py 198-244: one attempt.  The body calls call_tool and
\* re-raises what it raises; tenacity returns the result, lets an exception
\* outside retry_if_exception_type through, and on a retryable one either
\* waits for the next attempt or, after stop_after_attempt attempts, raises
\* RetryError (reraise is not set).
Attempt ==
    /\ pc = "retry_call"
    /\ \E http \in ToolHttpOutcomes :
         \E result \in { call_tool(RetryToolName, http) } :
         /\ retry_log' = Append(retry_log, result)
         /\ IF result.kind = "return"
            THEN retry_result' = result /\ pc' = "retry_done"
            ELSE IF result.exc \notin retry_if_exception_type
            THEN retry_result' = result /\ pc' = "retry_done"
            ELSE IF Len(retry_log) + 1 >= stop_after_attempt
            THEN retry_result' = Raise("RetryError", result.msg) /\ pc' = "retry_done"
            ELSE pc' = "retry_wait" /\ UNCHANGED retry_result
    /\ UNCHANGED << parse_input, parse_output, registry_vars, repair_input, repair_output,
                    cancel_requested, init_log, max_iterations, user_query,
                    iteration, messages, llm_response_text, action, outcome, llm_requests,
                    parse_log, llm_outcomes, tool_requests, tool_outcomes, tool_results >>

\* tool_client.py 200: wait_exponential sleeps, then the next attempt starts
Backoff ==
    /\ pc = "retry_wait"
    /\ pc' = "retry_call"
    /\ UNCHANGED << retry_log, retry_result, registry_vars, parse_input, parse_output, repair_input,
                    repair_output, cancel_requested, init_log, max_iterations, user_query,
                    iteration, messages, llm_response_text, action, outcome, llm_requests,
                    parse_log, llm_outcomes, tool_requests, tool_outcomes, tool_results >>

RetryNext ==
    \/ Attempt
    \/ Backoff

RetrySpec == RetryInit /\ [][RetryNext]_vars

\* ------------------------------------------------------------------------
\* client/api/registry.py: fetch_tools and its cache file
\* ------------------------------------------------------------------------
\* latest clock reading explored
MaxClock == 2

\* largest number of fetch_tools calls in one behaviour
MaxFetches == 2

\* api_base arguments
ApiBases == { "http://a:5000", "http://b:5000" }

\* cache_ttl arguments, in clock ticks: an entry is fresh at age 0 and 1
CacheTtls == { 1 }

\* what json.load gives for a cache file holding null
None == [t |-> "none"]

\* a timestamp text: datetime.now(timezone.utc).isoformat() carries the UTC
\* offset ("aware"); "naive" is an ISO text without offset, "malformed" a
\* text fromisoformat rejects, "empty" the empty text, "not_text" a number
Stamp(k, at) == [k |-> k, at |-> at]

\* a dict held by the cache file or returned by fetch_tools; a key the dict
\* does not have is Absent
RegistryDict(tools, count, fetched_at, api_base, cached_at) ==
    [t |-> "dict", tools |-> tools, count |-> count, fetched_at |-> fetched_at,
     api_base |-> api_base, cached_at |-> cached_at]

EmptyDict == RegistryDict(Absent, Absent, Absent, Absent, Absent)

\* valid JSON that is no object: a list, a string or a number
NonDict(truthy) == [t |-> "other", truthy |-> truthy]

\* bool(x) of a decoded cache content
Truthy(data) ==
    IF data = None THEN FALSE
    ELSE IF data.t = "other" THEN data.truthy
    ELSE data /= EmptyDict

FileAbsent == [kind |-> "absent"]

\* a file json.load cannot decode
FileUnreadable == [kind |-> "unreadable"]

FileHolding(data) == [kind |-> "data", data |-> data]

\* the tools member of the two registries the server may serve
ToolsOne ==
    JArr(<< JObj(<< [k |-> <<"name">>, val |-> JStr(<<"get_weather">>)],
                    [k |-> <<"description">>, val |-> JStr(<<"weather">>)],
                    [k |-> <<"httpMethod">>, val |-> JStr(<<"POST">>)],
                    [k |-> <<"path">>, val |-> JStr(<<"/tools/get_weather">>)] >>) >>)

ToolsNone == JArr(<<>>)

\* cached_at members a cache file may hold at the start
CachedAtValues ==
    { Absent, Stamp("empty", 0), Stamp("malformed", 0), Stamp("not_text", 0),
      Stamp("naive", 0), Stamp("aware", 0), Stamp("aware", 1) }

\* an entry as save wrote it at clock 0 for the first api_base
SavedEntry ==
    RegistryDict(ToolsNone, JNum("0"), Stamp("aware", 0), JStr(<<"http://a:5000">>),
                 Stamp("aware", 0))

\* what the cache file may hold when a process starts: nothing, a file cut
\* short, null, other JSON, an empty dict, an entry as save wrote it, or
\* such an entry with one member missing or of another form
CacheContents ==
    { FileAbsent, FileUnreadable, FileHolding(None), FileHolding(EmptyDict),
      FileHolding(NonDict(TRUE)), FileHolding(NonDict(FALSE)),
      FileHolding([SavedEntry EXCEPT !.api_base = Absent]),
      FileHolding([SavedEntry EXCEPT !.count = Absent]) }
    \cup { FileHolding([SavedEntry EXCEPT !.cached_at = cached_at]) :
             cached_at \in CachedAtValues }

\* registry.py 125-145: ToolsCache.load
load(file) ==
    IF file.kind = "data" THEN file.data ELSE None

\* how the write of ToolsCache.save can go: done, refused before the file
\* is opened, or broken off after the file was truncated
WriteOutcomes == { "written", "refused", "broken_off" }

\* registry.py 98-123: ToolsCache.save; an IOError is logged and swallowed
save(file, data, clock, write) ==
    IF write = "written"
    THEN FileHolding([data EXCEPT !.cached_at = Stamp("aware", clock)])
    ELSE IF write = "refused" THEN file
    ELSE FileUnreadable

\* registry.py 147-180: ToolsCache.is_expired; data.get of a list, string or
\* number raises AttributeError, fromisoformat of a number and the
\* subtraction of a naive from an aware datetime raise TypeError
is_expired(file, ttl, clock) ==
    Only({ IF data = None THEN Return(TRUE)
           ELSE IF data.t /= "dict" THEN Raise("AttributeError", <<"get">>)
           ELSE IF data.cached_at = Absent THEN Return(TRUE)
           ELSE IF data.cached_at.k = "empty" THEN Return(TRUE)
           ELSE IF data.cached_at.k = "not_text" THEN Raise("TypeError", <<"fromisoformat">>)
           ELSE IF data.cached_at.k = "malformed" THEN Return(TRUE)
           ELSE IF data.cached_at.k = "naive" THEN Raise("TypeError", <<"naive_and_aware">>)
           ELSE Return(clock - data.cached_at.at > ttl)
           : data \in { load(file) } })

\* registry.py 382-421: validate_tool_registry
validate_tool_registry(registry_data) ==
    /\ IsObj(registry_data)
    /\ HasKey(registry_data, <<"tools">>)
    /\ DictGet(registry_data, <<"tools">>).t = "arr"
    /\ \A i \in 1..Len(DictGet(registry_data, <<"tools">>).v) :
         \E tool \in { DictGet(registry_data, <<"tools">>).v[i] } :
            /\ IsObj(tool)
            /\ \A field \in { "name", "description", "httpMethod", "path" } :
                 HasKey(tool, <<field>>)

\* bodies of the GET /tools response
RegistryBodyOne ==
    <<"{">> \o Member("tools",
                      <<"[", "{">> \o Member("name", Lit("get_weather")) \o <<",">>
                                   \o Member("description", Lit("weather")) \o <<",">>
                                   \o Member("httpMethod", Lit("POST")) \o <<",">>
                                   \o Member("path", Lit("/tools/get_weather")) \o <<"}", "]">>)
            \o <<",">> \o Member("count", <<"1">>) \o <<"}">>

\* a registry without tools and without the count member
RegistryBodyNone == <<"{">> \o Member("tools", <<"[", "]">>) \o <<"}">>

RegistryBodyNoTools == <<"{">> \o Member("count", <<"0">>) \o <<"}">>

RegistryBodyToolsNotList == <<"{">> \o Member("tools", Lit("invalid")) \o <<"}">>

RegistryBodyToolIncomplete ==
    <<"{">> \o Member("tools", <<"[", "{">> \o Member("name", Lit("get_weather")) \o <<"}", "]">>)
            \o <<"}">>

\* the fetches that succeed
RegistryHttpSuccesses ==
    { HttpResponse(200, RegistryBodyOne), HttpResponse(200, RegistryBodyNone) }

\* the fetches that fail: status, body, structure, timeout, connection
RegistryHttpFailures ==
    { HttpResponse(500, RegistryBodyOne),
      HttpResponse(200, <<"not", " ", "json">>),
      HttpResponse(200, RegistryBodyNoTools),
      HttpResponse(200, RegistryBodyToolsNotList),
      HttpResponse(200, RegistryBodyToolIncomplete),
      HttpResponse(200, <<"[", "1", "]">>),
      [kind |-> "Timeout"],
      [kind |-> "ConnectionError"],
      [kind |-> "RequestException"] }

RegistryHttpOutcomes == RegistryHttpSuccesses \cup RegistryHttpFailures

\* the JSON decoder requests uses: with simplejson installed the error of
\* response.json() is no json.JSONDecodeError, only a RequestException
JsonLibraries == { "json", "simplejson" }

\* what one fetch_tools call yields: its result, the cache file it leaves,
\* and whether it sent the HTTP request
Fetched(result, file, requested) ==
    [result |-> result, file |-> file, requested |-> requested]

\* the result dict built from a valid registry (registry.py 280-289)
RegistryResult(registry_data, api_base, clock) ==
    RegistryDict(DictGet(registry_data, <<"tools">>),
                 IF HasKey(registry_data, <<"count">>)
                 THEN DictGet(registry_data, <<"count">>)
                 ELSE JNum("0"),
                 Stamp("aware", clock), JStr(<<api_base>>), Absent)

\* request_registry answering a failed request with the cache content
request_registry_FallsBackToCache(api_base, use_cache, file, clock, http, decoder, write) ==
    Only({ IF http \in RegistryHttpFailures
           THEN IF use_cache /\ load(file) /= None /\ load(file).t = "dict"
                THEN Fetched(Return(load(file)), file, TRUE)
                ELSE Fetched(Raise("RegistryError", <<"registry_fetch_failed">>), file, TRUE)
           ELSE Fetched(Return(RegistryResult(body.val, api_base, clock)),
                        IF use_cache
                        THEN save(file, RegistryResult(body.val, api_base, clock), clock, write)
                        ELSE file,
                        TRUE)
           : body \in { IF http \in RegistryHttpFailures THEN ParseFail
                        ELSE JsonLoads(http.text) } })

\* request_registry saving the result whatever use_cache says
request_registry_AlwaysSaves(api_base, use_cache, file, clock, http, decoder, write) ==
    Only({ IF http \in RegistryHttpFailures
           THEN Fetched(Raise("RegistryError", <<"registry_fetch_failed">>), file, TRUE)
           ELSE Fetched(Return(RegistryResult(body.val, api_base, clock)),
                        save(file, RegistryResult(body.val, api_base, clock), clock, write),
                        TRUE)
           : body \in { IF http \in RegistryHttpFailures THEN ParseFail
                        ELSE JsonLoads(http.text) } })

\* registry.py 249-310: the GET request, the checks of the response, the
\* result dict, and the save when use_cache is set
request_registry(api_base, use_cache, file, clock, http, decoder, write) ==
    IF http.kind = "Timeout"
    THEN Fetched(Raise("RegistryTimeoutError", <<"registry_timeout">>), file, TRUE)
    ELSE IF http.kind = "ConnectionError"
    THEN Fetched(Raise("RegistryConnectionError", <<"registry_connection_error">>), file, TRUE)
    ELSE IF http.kind = "RequestException"
    THEN Fetched(Raise("RegistryError", <<"registry_request_error">>), file, TRUE)
    ELSE IF http.status /= 200
    THEN Fetched(Raise("RegistryError", <<"http_status", " ", StatusWord(http.status)>>),
                 file, TRUE)
    ELSE Only({ IF ~body.ok
                THEN Fetched(Raise(IF decoder = "json" THEN "RegistryParseError"
                                   ELSE "RegistryError",
                                   <<"invalid_json">>), file, TRUE)
                ELSE IF ~validate_tool_registry(body.val)
                THEN Fetched(Raise("RegistryParseError", <<"invalid_registry">>), file, TRUE)
                ELSE Fetched(Return(RegistryResult(body.val, api_base, clock)),
                             IF use_cache
                             THEN save(file, RegistryResult(body.val, api_base, clock),
                                       clock, write)
                             ELSE file,
                             TRUE)
                : body \in { JsonLoads(http.text) } })

\* registry.py 199-295: fetch_tools.  With use_cache the cache is loaded;
\* a truthy content that is_expired reports fresh and whose api_base is the
\* one asked for is returned, after a log line that reads its count member.
fetch_tools(api_base, use_cache, cache_ttl, file, clock, http, decoder, write) ==
    IF ~use_cache
    THEN request_registry(api_base, use_cache, file, clock, http, decoder, write)
    ELSE Only({ IF ~Truthy(cached_data)
                THEN request_registry(api_base, use_cache, file, clock, http, decoder, write)
                ELSE Only({ IF expired.kind = "raise"
                            THEN Fetched(expired, file, FALSE)
                            ELSE IF expired.result
                            THEN request_registry(api_base, use_cache, file, clock, http,
                                                  decoder, write)
                            ELSE IF cached_data.api_base /= JStr(<<api_base>>)
                            THEN request_registry(api_base, use_cache, file, clock, http,
                                                  decoder, write)
                            ELSE IF cached_data.count = Absent
                            THEN Fetched(Raise("KeyError", <<"count">>), file, FALSE)
                            ELSE Fetched(Return(cached_data), file, FALSE)
                            : expired \in { is_expired(file, cache_ttl, clock) } })
                : cached_data \in { load(file) } })

\* no HTTP request was sent
NoRequest == [kind |-> "none"]

RegistryInit ==
    /\ pc = "registry"
    /\ cache_file \in CacheContents
    /\ now = 0
    /\ fetch_call = NoOutcome
    /\ fetches = 0
    /\ parse_input = <<>>
    /\ parse_output = NoOutcome
    /\ retry_log = <<>>
    /\ retry_result = NoOutcome
    /\ repair_input = <<>>
    /\ repair_output = NoOutcome
    /\ max_iterations = 0
    /\ user_query = <<>>
    /\ iteration = 0
    /\ messages = <<>>
    /\ llm_response_text = <<>>
    /\ action = NoAction
    /\ outcome = NoOutcome
    /\ llm_requests = <<>>
    /\ parse_log = <<>>
    /\ llm_outcomes = <<>>
    /\ tool_requests = <<>>
    /\ tool_outcomes = <<>>
    /\ tool_results = <<>>
    /\ init_log = <<>>
    /\ cancel_requested = FALSE

\* what is left alone by the steps of the registry module
not_registry_vars ==
    << pc, parse_input, parse_output, retry_log, retry_result, repair_input, repair_output,
       cancel_requested, init_log, max_iterations, user_query, iteration, messages,
       llm_response_text, action, outcome, llm_requests, parse_log, llm_outcomes,
       tool_requests, tool_outcomes, tool_results >>

\* time passes between two calls
Tick ==
    /\ pc = "registry"
    /\ now < MaxClock
    /\ now' = now + 1
    /\ UNCHANGED << cache_file, fetch_call, fetches, not_registry_vars >>

\* registry.py 199-310: one call of fetch_tools, from its arguments, the
\* cache file and the clock to its result and the cache file it leaves
FetchTools ==
    /\ pc = "registry"
    /\ fetches < MaxFetches
    /\ \E api_base \in ApiBases, use_cache \in BOOLEAN, cache_ttl \in CacheTtls,
          http \in RegistryHttpOutcomes :
       \E decoder \in IF http \in RegistryHttpSuccesses THEN { "json" } ELSE JsonLibraries,
          write \in IF http \in RegistryHttpSuccesses /\ use_cache
                    THEN WriteOutcomes ELSE { "written" } :
          \E r \in { fetch_tools(api_base, use_cache, cache_ttl, cache_file, now,
                                 http, decoder, write) } :
             /\ fetch_call' = [kind |-> "fetched", api_base |-> api_base,
                               use_cache |-> use_cache, cache_ttl |-> cache_ttl,
                               before |-> cache_file, at |-> now,
                               requested |-> r.requested,
                               http |-> IF r.requested THEN http ELSE NoRequest,
                               saved |-> IF r.requested /\ r.result.kind = "return" /\ use_cache
                                         THEN write ELSE "not_tried",
                               result |-> r.result]
             /\ cache_file' = r.file
    /\ fetches' = fetches + 1
    /\ UNCHANGED << now, not_registry_vars >>

RegistryNext ==
    \/ Tick
    \/ FetchTools

RegistrySpec == RegistryInit /\ [][RegistryNext]_vars

\* ------------------------------------------------------------------------
\* Properties of run_loop
\* ------------------------------------------------------------------------
IsVariant(e) == e.op = "parse" /\ e.ok

\* the variant obtained from each reply, in order (one per iteration that
\* got past parsing)
Variants == SelectSeq(parse_log, IsVariant)

IsToolCallVariant(e) == IsVariant(e) /\ e.result = "tool_call"

LastVariantIs(kind) ==
    Variants /= <<>> /\ Variants[Len(Variants)].result = kind

Failed == outcome.kind = "raise"

FailedWith(exc) == outcome.kind = "raise" /\ outcome.exc = exc

\* C1: when the first i-1 replies parse as tool_call and the i-th as
\* final_answer (1 <= i <= max_iterations), run_loop returns that final
\* answer's content after exactly i LLM calls and i-1 tool calls, and no
\* further call is issued: the run is at the return or has returned, and once
\* it has returned nothing is enabled.
C1_FinalAnswerAfterToolCalls ==
    \A i \in 1..max_iterations :
        ( /\ Len(Variants) = i
          /\ \A j \in 1..(i - 1) : Variants[j].result = "tool_call"
          /\ Variants[i].result = "final_answer" )
        => /\ llm_calls = i
           /\ tool_calls = i - 1
           /\ pc \in {"dispatch", "done"}
           /\ pc = "done" =>
                /\ outcome = Returned(parse_llm_response(Variants[i].text).value.content)
                /\ ~ENABLED Next

C1_Witness ==
    /\ pc = "done"
    /\ outcome.kind = "return"
    /\ llm_calls = 2
    /\ tool_calls = 1

\* C2: the number of LLM calls never exceeds max_iterations and the number
\* of tool calls never exceeds the number of LLM calls; a run (past
\* initialization, max_iterations = N >= 1) in which every LLM call got a
\* reply that parsed as tool_call ends with MaxIterationsReached after
\* exactly N LLM calls and N tool calls.
C2_BudgetExhausted ==
    /\ llm_calls <= max_iterations
    /\ tool_calls <= llm_calls
    /\ ( /\ pc = "done"
         /\ max_iterations >= 1
         /\ messages /= <<>>
         /\ Len(SelectSeq(parse_log, IsToolCallVariant)) = llm_calls )
       => /\ FailedWith("MaxIterationsReached")
          /\ llm_calls = max_iterations
          /\ tool_calls = max_iterations
    /\ FailedWith("MaxIterationsReached")
       => /\ llm_calls = max_iterations
          /\ tool_calls = max_iterations
          /\ Len(SelectSeq(parse_log, IsToolCallVariant)) = max_iterations

C2_Witness ==
    /\ FailedWith("MaxIterationsReached")
    /\ max_iterations = 2
    /\ llm_calls = 2
    /\ tool_calls = 2

\* C3: a reply that parses as clarify ends the run with the OrchestratorError
\* of the clarification branch, carrying the question and the
\* missing-parameter list of that reply; no tool call is issued for the
\* reply and no further LLM call (first reply: one LLM call, no tool call).
C3_ClarificationIsFatal ==
    LastVariantIs("clarify")
    => LET n == Len(Variants)
           asked == parse_llm_response(Variants[n].text).value
       IN  /\ llm_calls = n
           /\ tool_calls = n - 1
           /\ pc \in {"dispatch", "done"}
           /\ pc = "done" =>
                /\ outcome = Raised("OrchestratorError", "clarification",
                                    <<asked.question, asked.missing_params>>)
                /\ asked.question = <<"Which", " ", "city?">>
                /\ asked.missing_params = JArr(<<JStr(<<"city">>)>>)
                /\ ~ENABLED Next

C3_Witness ==
    /\ pc = "done"
    /\ LastVariantIs("clarify")
    /\ FailedWith("OrchestratorError")
    /\ llm_calls = 1
    /\ tool_calls = 0

\* C4: a tool call the transport rejects or fails does not abort the loop:
\* its ToolResult has ok = false and a non-empty error, the user turn that
\* follows the tool call in the history is exactly that result serialized,
\* and the run goes on to the next LLM call while budget remains (it ends
\* with MaxIterationsReached when the failed call used the last iteration).
C4_ToolFailureFeedsBack ==
    \A j \in 1..Len(tool_outcomes) :
        (tool_outcomes[j].kind = "raise")
        => /\ Len(tool_results) >= j
           /\ tool_results[j].ok = JFalse
           /\ IsStr(tool_results[j].error)
           /\ tool_results[j].error.v /= <<>>
           /\ tool_results[j].error.v = tool_outcomes[j].msg
           /\ Len(messages) >= 2 * j + 2
           /\ messages[2 * j + 1].role = "assistant"
           /\ messages[2 * j + 2] =
                  Message("user", JsonDumps(model_dump(tool_results[j])))
           /\ JsonLoads(messages[2 * j + 2].content).val = model_dump(tool_results[j])
           /\ (pc = "done" /\ j < max_iterations) => llm_calls >= j + 1
           /\ (pc = "done" /\ j = max_iterations) => FailedWith("MaxIterationsReached")

C4_Witness ==
    /\ Len(tool_outcomes) >= 1
    /\ tool_outcomes[1].kind = "raise"
    /\ tool_outcomes[1].exc = "ToolNotFoundError"
    /\ llm_calls = 2

\* C5: execute_tool returns a ToolResult for every outcome of the tool
\* transport call and never raises: every call_tool outcome has its
\* ToolResult, a raised error of any class and a response that cannot be
\* serialized give ok = false, and no run ends with an error that escaped
\* execute_tool.
C5_ExecuteToolNeverRaises ==
    /\ Len(tool_results) = Len(tool_outcomes)
    /\ \A j \in 1..Len(tool_outcomes) :
          /\ tool_results[j].kind = "tool_result"
          /\ tool_results[j].tool = tool_requests[j].tool_name
          /\ (tool_outcomes[j].kind = "raise" => tool_results[j].ok = JFalse)
          /\ (tool_outcomes[j].kind = "return" /\ Unserializable(tool_outcomes[j].result))
                => tool_results[j].ok = JFalse
    /\ pc = "tool_wait" => outcome = NoOutcome
    /\ (Failed /\ outcome.template = "unexpected") => outcome.args = <<"AttributeError">>

C5_Witness ==
    /\ Len(tool_results) = 2
    /\ tool_outcomes[1].kind = "raise"
    /\ tool_outcomes[1].exc = "ToolTimeoutError"
    /\ tool_outcomes[2].kind = "return"
    /\ Unserializable(tool_outcomes[2].result)

\* C6: an LLM call that fails at the transport layer ends the run with
\* OrchestratorError at once: it is the last LLM call of the run (no retry,
\* no later LLM call) and no tool call follows it.
C6_LLMFailureAborts ==
    \A j \in 1..Len(llm_outcomes) :
        (llm_outcomes[j].kind = "raise")
        => /\ pc = "done"
           /\ FailedWith("OrchestratorError")
           /\ outcome.template \in {"llm_connection", "llm_timeout", "llm_error"}
           /\ llm_calls = j
           /\ tool_calls = j - 1
           /\ ~ENABLED Next

C6_Witness ==
    /\ Len(llm_outcomes) = 2
    /\ llm_outcomes[2].kind = "raise"
    /\ llm_outcomes[2].exc = "OllamaTimeoutError"
    /\ pc = "done"

\* the parse_llm_response / safe_parse_json calls made in one iteration
InIteration(it) ==
    LET Here(e) == e.iteration = it IN SelectSeq(parse_log, Here)

\* C7: for every reply, parsing is attempted first; repair is applied, once,
\* exactly when that first parse fails, followed by exactly one parse of the
\* repaired text; when repair or the second parse fails the run ends with
\* InvalidResponseFormat and no further LLM or tool call.
C7_ParseThenRepairOnce ==
    \A it \in 0..MaxIterations :
        LET es == InIteration(it) IN
        (es /= <<>>)
        => /\ es[1].op = "parse"
           /\ es[1].ok => Len(es) = 1
           /\ ~es[1].ok =>
                /\ Len(es) >= 2
                /\ es[2].op = "repair"
                /\ es[2].text = es[1].text
                /\ ~es[2].ok => Len(es) = 2
                /\ es[2].ok =>
                     /\ Len(es) = 3
                     /\ es[3].op = "parse"
                     /\ es[3].text = safe_parse_json(es[1].text).text
                /\ ~es[Len(es)].ok =>
                     /\ pc = "done"
                     /\ FailedWith("InvalidResponseFormat")
                     /\ llm_calls = it + 1
                     /\ tool_calls = it

\* C8: safe_parse_json is never invoked on a reply whose first parse
\* succeeded: every repair call comes right after a failed parse of the same
\* reply in the same iteration, and a reply that parses directly is
\* dispatched as parsed from the unmodified text.
C8_RepairOnlyAfterFailedParse ==
    /\ \A k \in 1..Len(parse_log) :
          (parse_log[k].op = "repair")
          => /\ k > 1
             /\ parse_log[k - 1].op = "parse"
             /\ ~parse_log[k - 1].ok
             /\ parse_log[k - 1].iteration = parse_log[k].iteration
             /\ parse_log[k - 1].text = parse_log[k].text
             /\ ~parse_llm_response(parse_log[k].text).ok
    /\ (pc = "dispatch" /\ parse_llm_response(llm_response_text).ok)
          => /\ action = parse_llm_response(llm_response_text).value
             /\ parse_log[Len(parse_log)].text = llm_response_text
             /\ Len(InIteration(iteration)) = 1

C8_Witness ==
    /\ pc = "dispatch"
    /\ Len(parse_log) = 4
    /\ parse_log[1].ok
    /\ parse_log[3].op = "repair"
    /\ parse_log[4].ok

\* C9: a reply that parses as tool_result ends the run with
\* InvalidResponseFormat, without a tool call for it and with the history
\* as it was sent in the LLM call; the response schema sent with every LLM
\* call admits only the kinds tool_call, final_answer and clarify.
C9_ToolResultFromLLMRejected ==
    /\ LastVariantIs("tool_result")
       => LET n == Len(Variants) IN
          /\ llm_calls = n
          /\ tool_calls = n - 1
          /\ messages = llm_requests[n].messages
          /\ pc \in {"dispatch", "done"}
          /\ pc = "done" =>
               /\ outcome = Raised("InvalidResponseFormat", "unknown_response_type",
                                   <<"ToolResult">>)
               /\ ~ENABLED Next
    /\ \A j \in 1..Len(llm_requests) :
          llm_requests[j].format_schema.kinds = {"tool_call", "final_answer", "clarify"}

C9_Witness ==
    /\ pc = "done"
    /\ LastVariantIs("tool_result")
    /\ FailedWith("InvalidResponseFormat")
    /\ llm_calls = 2

\* C10: at every LLM call the history starts with the system prompt and the
\* user query, unmodified; the k-th call (k-1 completed tool iterations)
\* gets exactly 2 + 2(k-1) messages, and each added pair is an assistant
\* turn holding the tool call followed by a user turn holding the result of
\* that call.
C10_HistoryShape ==
    \A k \in 1..Len(llm_requests) :
        LET history == llm_requests[k].messages IN
        /\ Len(history) = 2 + 2 * (k - 1)
        /\ history[1].role = "system"
        /\ history[1] = llm_requests[1].messages[1]
        /\ history[2] = Message("user", user_query)
        /\ \A j \in 1..(k - 1) :
              LET call == parse_llm_response(history[2 * j + 1].content)
                  result == parse_llm_response(history[2 * j + 2].content)
              IN  /\ history[2 * j + 1].role = "assistant"
                  /\ history[2 * j + 2].role = "user"
                  /\ call.ok
                  /\ call.value.kind = "tool_call"
                  /\ call.value.tool = tool_requests[j].tool_name
                  /\ call.value.arguments = tool_requests[j].arguments
                  /\ result.ok
                  /\ result.value = tool_results[j]
                  /\ result.value.tool = tool_requests[j].tool_name

C10_Witness ==
    /\ Len(llm_requests) = 2
    /\ Len(llm_requests[2].messages) = 4
    /\ tool_results[1].ok = JTrue

\* C11: when fetch_tools or new_build_system_prompt fails, run_loop ends
\* with the OrchestratorError of the initialization step before any
\* iteration: no LLM call and no tool call is issued, the loop counter is
\* untouched, and nothing runs afterwards.
C11_InitFailureBeforeAnyIteration ==
    (\E k \in 1..Len(init_log) : ~init_log[k].ok)
    => /\ pc = "done"
       /\ outcome.kind = "raise"
       /\ outcome.exc = "OrchestratorError"
       /\ outcome.template = "init_error"
       /\ llm_calls = 0
       /\ tool_calls = 0
       /\ iteration = 0
       /\ parse_log = <<>>
       /\ ~ENABLED Next

C11_Witness ==
    /\ pc = "done"
    /\ init_log = << InitCall("fetch_tools", TRUE),
                     InitCall("new_build_system_prompt", FALSE) >>
    /\ FailedWith("OrchestratorError")

\* C12 as stated: a timeout of the LLM call or of the tool call ends the run
\* with a failure; no LLM call follows the timed-out call.
C12_TimeoutAbortsRun ==
    /\ \A j \in 1..Len(llm_outcomes) :
          (llm_outcomes[j].exc = "OllamaTimeoutError")
          => pc = "done" /\ Failed /\ llm_calls = j
    /\ \A j \in 1..Len(tool_outcomes) :
          (tool_outcomes[j].kind = "raise" /\ tool_outcomes[j].exc = "ToolTimeoutError")
          => pc = "done" /\ Failed /\ llm_calls = j

\* C12 (amended): a timeout of the LLM call ends the run at once with the
\* OrchestratorError of the timeout branch, without a retry.  A timeout of
\* the tool call is not retried either (one call_tool call per iteration),
\* but it does not end the run: it is captured in a ToolResult with
\* ok = false whose error is the timeout message, that result is appended to
\* the history, and the run goes on to the next LLM call while budget
\* remains.
C12_TimeoutHandling ==
    /\ \A j \in 1..Len(llm_outcomes) :
          (llm_outcomes[j].exc = "OllamaTimeoutError")
          => /\ pc = "done"
             /\ FailedWith("OrchestratorError")
             /\ outcome.template = "llm_timeout"
             /\ llm_calls = j
             /\ tool_calls = j - 1
    /\ \A j \in 1..Len(tool_requests) : tool_requests[j].iteration = j - 1
    /\ \A j \in 1..Len(tool_outcomes) :
          (tool_outcomes[j].kind = "raise" /\ tool_outcomes[j].exc = "ToolTimeoutError")
          => /\ Len(tool_results) >= j
             /\ tool_results[j].ok = JFalse
             /\ tool_results[j].error = JStr(tool_outcomes[j].msg)
             /\ Len(messages) >= 2 * j + 2
             /\ messages[2 * j + 2] =
                    Message("user", JsonDumps(model_dump(tool_results[j])))
             /\ (pc = "done" /\ j < max_iterations) => llm_calls >= j + 1

C12_Witness ==
    /\ Len(tool_outcomes) = 1
    /\ tool_outcomes[1].kind = "raise"
    /\ tool_outcomes[1].exc = "ToolTimeoutError"
    /\ llm_calls = 2
    /\ pc = "llm_wait"

\* the exception classes run_loop is declared to raise
OrchestratorErrors ==
    {"OrchestratorError", "MaxIterationsReached", "InvalidResponseFormat",
     "ToolExecutionFailed"}

\* C13: a run has no outcome while it is running and exactly one when it
\* has ended: either the returned final answer, a non-empty string, or one
\* raised failure whose class is OrchestratorError or one of its subclasses,
\* whatever a collaborator (registry, prompt builder, LLM transport, parser,
\* tool transport) raised; once the run has ended nothing runs, so the
\* outcome is never replaced.
C13_OneTypedOutcome ==
    /\ pc /= "done" => outcome = NoOutcome
    /\ pc = "done" =>
          /\ \/ /\ outcome.kind = "return"
                /\ outcome.value /= <<>>
                /\ LastVariantIs("final_answer")
             \/ /\ outcome.kind = "raise"
                /\ outcome.exc \in OrchestratorErrors
          /\ ~ENABLED Next

C13_Witness ==
    /\ pc = "done"
    /\ parse_log /= <<>>
    /\ parse_log[Len(parse_log)].result = "AttributeError"
    /\ Len(tool_outcomes) = 1
    /\ tool_outcomes[1].kind = "raise"
    /\ FailedWith("OrchestratorError")

\* C14: every run ends (with every outbound call eventually returning or
\* failing, which the fairness of FairSpec states) and has an outcome then;
\* it goes through at most max_iterations iterations; the loop counter only
\* advances when a tool call completes, and after dispatch the run is over
\* unless the parsed action is a tool call.
C14_Termination ==
    /\ <>(pc = "done" /\ outcome /= NoOutcome)
    /\ [](iteration <= max_iterations /\ llm_calls <= max_iterations)
    /\ [][ (pc = "dispatch" /\ pc' /= "done")
              => (action.kind = "tool_call" /\ pc' = "execute_tool") ]_vars
    /\ [][ (iteration' /= iteration)
              => (pc = "tool_wait" /\ pc' = "for" /\ iteration' = iteration + 1) ]_vars
    /\ [][ (pc' = "query") => (pc = "for" /\ iteration < max_iterations) ]_vars

C14_Witness ==
    /\ pc = "done"
    /\ max_iterations = 2
    /\ iteration = 2
    /\ FailedWith("MaxIterationsReached")

\* C15: the iteration budget is at least 1: a run that ends with
\* MaxIterationsReached was given a budget of at least 1 and has issued at
\* least one LLM call.
C15_BudgetAtLeastOne ==
    (pc = "done" /\ FailedWith("MaxIterationsReached"))
        => (max_iterations >= 1 /\ llm_calls >= 1)

\* outbound calls issued and not yet returned
outstanding_llm == Len(llm_requests) - Len(llm_outcomes)

outstanding_tool == Len(tool_requests) - Len(tool_outcomes)

\* C16: the loop is strictly sequential.  At most one outbound call (LLM or
\* tool) is outstanding at any time; the k-th tool call starts only after the
\* k-th LLM call has returned and its reply has been parsed as a tool_call;
\* the (k+1)-th LLM call starts only after the k-th tool call has completed
\* and its result is in the history that call sends.
C16_StrictlySequential ==
    /\ outstanding_llm \in 0..1
    /\ outstanding_tool \in 0..1
    /\ outstanding_llm + outstanding_tool <= 1
    /\ (outstanding_llm = 1) <=> (pc = "llm_wait")
    /\ (outstanding_tool = 1) <=> (pc = "tool_wait")
    /\ \A k \in 1..tool_calls :
         /\ tool_requests[k].iteration = k - 1
         /\ Len(llm_outcomes) >= k
         /\ llm_outcomes[k].kind = "return"
         /\ \E n \in 1..Len(parse_log) :
              /\ parse_log[n].iteration = k - 1
              /\ parse_log[n].op = "parse"
              /\ parse_log[n].ok
              /\ parse_log[n].result = "tool_call"
    /\ \A k \in 1..(llm_calls - 1) :
         /\ Len(tool_outcomes) >= k
         /\ Len(tool_results) >= k
         /\ Len(llm_requests[k + 1].messages) = 2 * k + 2
         /\ llm_requests[k + 1].messages[2 * k + 2]
                = Message("user", JsonDumps(model_dump(tool_results[k])))

\* the second LLM call is outstanding after the first tool call has returned
C16_Witness ==
    /\ pc = "llm_wait"
    /\ llm_calls = 2
    /\ tool_calls = 1
    /\ Len(tool_outcomes) = 1
    /\ outstanding_llm = 1

\* C17: once the caller has aborted, no new LLM call and no new tool call is
\* started, and the run does not go on to any outcome other than a Cancelled
\* failure (in particular it returns no result).
C17_CancellationStopsRun ==
    [][ cancel_requested =>
          /\ llm_requests' = llm_requests
          /\ tool_requests' = tool_requests
          /\ (outcome' /= outcome => (outcome'.kind = "raise" /\ outcome'.exc = "Cancelled"))
      ]_vars

\* C18: when the (trimmed) text lacks exactly n >= 1 closing braces, that is
\* the text followed by n closing braces is valid JSON, and this also when a
\* string value of the text holds a brace character, safe_parse_json returns
\* the text with exactly n closing braces appended.
C18_AppendsMissingBraces ==
    pc = "repair_done" =>
        \A n \in 1..(MaxCut + 1) :
            JsonLoads(Strip(repair_input) \o Repeat("}", n)).ok
                => /\ repair_output.ok
                   /\ repair_output.text = Strip(repair_input) \o Repeat("}", n)
                   /\ JsonLoads(repair_output.text).ok

\* C19: for a valid JSON body wrapped in a code fence (with or without a
\* language tag, the body on the opening fence's line or on its own lines,
\* the closing fence present or absent), safe_parse_json returns the body:
\* only the fence lines are removed and the result parses to what the body
\* parses to.
C19_StripsFenceLinesOnly ==
    pc = "repair_done" =>
        \A p \in Pads, w \in FenceWraps, body \in RepairBodies :
            (repair_input = Pad(p, Wrap(w, body)) /\ JsonLoads(body).ok)
                => /\ repair_output.ok
                   /\ repair_output.text = body
                   /\ JsonLoads(repair_output.text) = JsonLoads(body)

\* only whitespace characters
IsBlank(s) == \A i \in 1..Len(s) : s[i] \in StripChars

\* blanks, or blanks, an opening fence line up to and including its line
\* end (or up to the end of the text when there is no line end), and blanks
IsLeadingTrim(s, at_end) ==
    \/ IsBlank(s)
    \/ \E a \in 1..Len(s), b \in 1..Len(s) :
         /\ a <= b
         /\ IsBlank(SubSeq(s, 1, a - 1))
         /\ s[a] = FENCE
         /\ \A i \in a..(b - 1) : s[i] /= "\n"
         /\ (s[b] = "\n" \/ (b = Len(s) /\ at_end))
         /\ IsBlank(SubSeq(s, b + 1, Len(s)))

\* blanks, or a closing fence alone on the last non-blank line and blanks
IsTrailingTrim(s) ==
    \/ IsBlank(s)
    \/ \E a \in 1..Len(s) :
         /\ s[a] = FENCE
         /\ IsBlank(SubSeq(s, 1, a - 1))
         /\ \E i \in 1..(a - 1) : s[i] = "\n"
         /\ IsBlank(SubSeq(s, a + 1, Len(s)))

\* C20: whenever safe_parse_json succeeds, its output is one contiguous piece
\* of the input followed by zero or more closing braces, and what was left
\* out before and after that piece is only surrounding whitespace and fence
\* lines: nothing is reordered, nothing else is deleted, nothing is inserted
\* except closing braces at the very end.
C20_OnlyTrimsAndAppendsBraces ==
    (pc = "repair_done" /\ repair_output.ok) =>
        \E i \in 0..Len(repair_input), j \in 0..Len(repair_input),
           n \in 0..Len(repair_output.text) :
            /\ i <= j
            /\ repair_output.text = SubSeq(repair_input, i + 1, j) \o Repeat("}", n)
            /\ IsLeadingTrim(SubSeq(repair_input, 1, i), j = Len(repair_input))
            /\ IsTrailingTrim(SubSeq(repair_input, j + 1, Len(repair_input)))

\* a fenced and padded reply that lacked closing braces was repaired
C20_Witness ==
    /\ pc = "repair_done"
    /\ repair_output.ok
    /\ repair_input = Pad("both", Wrap("fenced_json", Cut(BodyNested, 2)))
    /\ repair_output.text = BodyNested

\* C21: when the text, trimmed and without its fence lines, fails the strict
\* parse and fails it again after the missing closing braces are appended
\* (nothing is appended when there are at least as many closing as opening
\* braces), safe_parse_json raises ValueError, raised from the parse error,
\* and returns no text.
C21_UnrecoverableRaisesValueError ==
    pc = "repair_done" =>
        \A t1 \in { StripFence(Strip(repair_input)) } :
            LET deficit == Count(t1, "{") - Count(t1, "}") IN
            ( /\ ~JsonLoads(t1).ok
              /\ \/ deficit <= 0
                 \/ ~JsonLoads(t1 \o Repeat("}", deficit)).ok )
            => /\ ~repair_output.ok
               /\ repair_output.exc = "ValueError"
               /\ repair_output.cause = "JSONDecodeError"
               /\ DOMAIN repair_output = {"ok", "exc", "cause"}

\* text with a closing brace too many was rejected
C21_Witness ==
    /\ pc = "repair_done"
    /\ repair_input = BodyHeadless
    /\ Count(repair_input, "{") < Count(repair_input, "}")
    /\ ~repair_output.ok

\* C26: when the text, trimmed and without its fence lines, already passes
\* the strict parse, safe_parse_json returns exactly that text: no brace is
\* appended to valid JSON, whatever braces its string values hold.
C26_ValidTextUnchanged ==
    pc = "repair_done" =>
        /\ JsonLoads(Strip(repair_input)).ok
              => (repair_output.ok /\ repair_output.text = Strip(repair_input))
        /\ \A t1 \in { StripFence(Strip(repair_input)) } :
              JsonLoads(t1).ok => (repair_output.ok /\ repair_output.text = t1)

\* valid JSON with more opening than closing brace characters came back as is
C26_Witness ==
    /\ pc = "repair_done"
    /\ repair_input = Pad("both", BodyOpenBraceInString)
    /\ Count(repair_input, "{") > Count(repair_input, "}")
    /\ repair_output.ok
    /\ repair_output.text = BodyOpenBraceInString

\* the kind member of a decoded reply, as a word: "missing" when the value is
\* no object or has no kind, "unrecognized" when kind names no variant
KindOf(data) ==
    IF ~IsObj(data) \/ ~HasKey(data, <<"kind">>) THEN "missing"
    ELSE LET kind == DictGet(data, <<"kind">>) IN
         IF IsStr(kind) /\ Len(kind.v) = 1
               /\ kind.v[1] \in {"tool_call", "tool_result", "final_answer", "clarify"}
         THEN kind.v[1]
         ELSE "unrecognized"

\* the fields a variant requires
RequiredFields(kind) ==
    IF kind = "tool_call" THEN { <<"tool">>, <<"arguments">> }
    ELSE IF kind = "tool_result" THEN { <<"tool">>, <<"ok">> }
    ELSE IF kind = "final_answer" THEN { <<"content">> }
    ELSE { <<"question">> }

\* the required string fields named tool, content and question
RequiredTextFields(kind) ==
    RequiredFields(kind) \cap { <<"tool">>, <<"content">>, <<"question">> }

\* C22: parse_llm_response returns the variant its kind field selects, and
\* raises ValueError whenever the text is not JSON, kind is missing or
\* unrecognized, a field the selected variant requires is absent, arguments
\* is not a mapping, or a required string field (tool, content, question) is
\* empty after trimming.
C22_VariantByKindOrValueError ==
    pc = "parse_done" =>
        \A loaded \in { JsonLoads(parse_input) } :
            LET kind == KindOf(loaded.val)
                must_fail ==
                    \/ ~loaded.ok
                    \/ kind \in {"missing", "unrecognized"}
                    \/ \E f \in RequiredFields(kind) : ~HasKey(loaded.val, f)
                    \/ /\ kind = "tool_call"
                       /\ ~IsObj(DictGet(loaded.val, <<"arguments">>))
                    \/ \E f \in RequiredTextFields(kind) :
                          /\ IsStr(DictGet(loaded.val, f))
                          /\ Strip(DictGet(loaded.val, f).v) = <<>>
            IN  /\ must_fail => (~parse_output.ok /\ parse_output.exc = "ValueError")
                /\ parse_output.ok => parse_output.value.kind = kind

\* C23: for a well-formed tool_call reply (kind tool_call, tool a non-blank
\* string, arguments a mapping) parse_llm_response returns a ToolCall whose
\* tool and arguments are exactly the values of the reply, also when the
\* tool name has whitespace around it; and parsing a text gives what parsing
\* the trimmed text gives.
C23_ToolCallAsGiven ==
    pc = "parse_done" =>
        /\ \A loaded \in { JsonLoads(parse_input) } :
              ( /\ loaded.ok
                /\ KindOf(loaded.val) = "tool_call"
                /\ HasKey(loaded.val, <<"tool">>)
                /\ IsStr(DictGet(loaded.val, <<"tool">>))
                /\ Strip(DictGet(loaded.val, <<"tool">>).v) /= <<>>
                /\ HasKey(loaded.val, <<"arguments">>)
                /\ IsObj(DictGet(loaded.val, <<"arguments">>)) )
              => /\ parse_output.ok
                 /\ parse_output.value.kind = "tool_call"
                 /\ parse_output.value.tool = DictGet(loaded.val, <<"tool">>).v
                 /\ parse_output.value.arguments = DictGet(loaded.val, <<"arguments">>)
        /\ parse_output = parse_llm_response(Strip(parse_input))

\* replies parsed as a tool call so far in the run
parsed_tool_calls ==
    Cardinality({ n \in 1..Len(parse_log) :
                    /\ parse_log[n].op = "parse"
                    /\ parse_log[n].ok
                    /\ parse_log[n].result = "tool_call" })

\* C24: the loop does not check a requested tool against the catalog.
\* Every reply parsed as a tool call leads to the tool transport call for the
\* tool it names, whether or not the catalog lists it, and a not-found
\* failure of the transport becomes the error of the ToolResult of that call.
C24_NoPreValidation ==
    /\ [][ (pc = "dispatch" /\ action.kind = "tool_call") => pc' = "execute_tool" ]_vars
    /\ [][ pc = "execute_tool"
             => tool_requests' = Append(tool_requests,
                                        [iteration |-> iteration, tool_name |-> action.tool,
                                         arguments |-> action.arguments]) ]_vars
    /\ [](parsed_tool_calls
            = tool_calls + (IF pc \in {"dispatch", "execute_tool"} /\ action.kind = "tool_call"
                            THEN 1 ELSE 0))
    /\ [](\A j \in 1..Len(tool_results) :
            (tool_outcomes[j].kind = "raise" /\ tool_outcomes[j].exc = "ToolNotFoundError")
            => /\ tool_results[j].tool = tool_requests[j].tool_name
               /\ tool_results[j].ok = JFalse
               /\ tool_results[j].error = JStr(tool_outcomes[j].msg))

\* a tool the catalog does not list was called and the transport's not-found
\* error came back in the ToolResult
C24_Witness ==
    /\ Len(tool_results) >= 1
    /\ tool_requests[1].tool_name \notin CatalogNames
    /\ tool_outcomes[1].kind = "raise"
    /\ tool_outcomes[1].exc = "ToolNotFoundError"
    /\ tool_results[1].error = JStr(tool_outcomes[1].msg)

\* C25: call_tool_with_retry makes at most 3 transport attempts.  Every
\* attempt but the last failed with ToolCallError or ToolTimeoutError; the
\* call ends at the first success with that result, ends at a not-found,
\* validation or server error with that error and no further attempt, and
\* ends on a retryable failure only when that was the third attempt.
C25_AtMostThreeAttempts ==
    /\ Len(retry_log) <= 3
    /\ \A k \in 1..(Len(retry_log) - 1) :
         /\ retry_log[k].kind = "raise"
         /\ retry_log[k].exc \in {"ToolCallError", "ToolTimeoutError"}
    /\ pc = "retry_wait"
         => /\ Len(retry_log) \in 1..2
            /\ retry_log[Len(retry_log)].kind = "raise"
            /\ retry_log[Len(retry_log)].exc \in {"ToolCallError", "ToolTimeoutError"}
    /\ pc = "retry_call" => Len(retry_log) <= 2
    /\ pc = "retry_done"
         => LET last == retry_log[Len(retry_log)] IN
            /\ Len(retry_log) >= 1
            /\ last.kind = "return" => retry_result = last
            /\ (last.kind = "raise" /\ last.exc \in {"ToolNotFoundError", "ToolValidationError",
                                                     "ToolServerError"})
                  => retry_result = last
            /\ (last.kind = "raise" /\ last.exc \in {"ToolCallError", "ToolTimeoutError"})
                  => (Len(retry_log) = 3 /\ retry_result.kind = "raise")
            /\ (Len(retry_log) = 1 /\ last.kind = "raise") => last.exc \notin {"ToolCallError", "ToolTimeoutError"}

\* two retryable failures, then a not-found error ended the call
C25_Witness ==
    /\ pc = "retry_done"
    /\ Len(retry_log) = 3
    /\ retry_log[1].exc = "ToolTimeoutError"
    /\ retry_log[2].exc = "ToolCallError"
    /\ retry_log[3].kind = "raise"
    /\ retry_log[3].exc = "ToolNotFoundError"
    /\ retry_result = retry_log[3]

\* C27: whenever the last parse or repair call of an iteration fails, that is
\* the reply could not be turned into a response variant even after repair,
\* the run ends with InvalidResponseFormat; this for every reply text, an
\* empty reply and JSON that is no object included.
C27_UnparseableIsInvalidResponseFormat ==
    \A it \in 0..MaxIterations :
        LET es == InIteration(it) IN
        (es /= <<>> /\ ~es[Len(es)].ok)
        => /\ pc = "done"
           /\ FailedWith("InvalidResponseFormat")

\* C28 as stated: once the run is over, every iteration whose reply was
\* parsed has left an assistant turn in the history, followed by a
\* tool-result turn only when the reply was a tool call.
C28_AssistantTurnEveryIteration ==
    pc = "done" =>
        \A it \in 0..MaxIterations :
            LET es == InIteration(it) IN
            (es /= <<>> /\ es[Len(es)].ok /\ es[Len(es)].op = "parse")
            => /\ Len(messages) >= 2 * it + 3
               /\ messages[2 * it + 3].role = "assistant"
               /\ (es[Len(es)].result /= "tool_call") => Len(messages) = 2 * it + 3

\* C28 amended: the history is created by the initialization step and is
\* changed only when a tool call has completed: then the assistant turn
\* holding the tool call and the user turn holding its result are appended
\* together and the next iteration starts.  An iteration whose reply is a
\* final answer, a clarification, a tool_result or unparseable leaves the
\* history as the LLM call of that iteration got it.
C28_HistoryChangesOnlyAfterToolCall ==
    /\ [][ (messages' /= messages /\ pc /= "init")
             => /\ pc = "tool_wait"
                /\ action.kind = "tool_call"
                /\ pc' = "for"
                /\ iteration' = iteration + 1
                /\ Len(tool_results') = Len(tool_results) + 1
                /\ messages' = messages \o
                      << Message("assistant", JsonDumps(model_dump(action))),
                         Message("user",
                                 JsonDumps(model_dump(tool_results'[Len(tool_results')]))) >>
         ]_vars
    /\ [](pc \notin {"init", "done"} => Len(messages) = 2 + 2 * iteration)
    /\ []((pc = "done" /\ llm_calls >= 1 /\ Len(tool_outcomes) = Len(tool_results))
             => \/ messages = llm_requests[llm_calls].messages
                \/ /\ FailedWith("MaxIterationsReached")
                   /\ Len(messages) = 2 + 2 * max_iterations)

\* a run that made one tool call and then returned a final answer: four
\* turns, none for the final answer
C28_Witness ==
    /\ pc = "done"
    /\ outcome.kind = "return"
    /\ tool_calls = 1
    /\ llm_calls = 2
    /\ Len(messages) = 4

\* C29: the loop never retries a tool call.  Each iteration issues at most
\* one tool transport call, the one its parsed tool_call reply asks for;
\* when that call has returned or failed the loop goes on to the next
\* iteration (or ends), so another tool call is issued only after another
\* LLM reply.
C29_NoToolRetryByLoop ==
    /\ [](\A j \in 1..tool_calls :
            /\ tool_requests[j].iteration = j - 1
            /\ llm_calls >= j
            /\ \A i \in 1..tool_calls :
                 tool_requests[i].iteration = tool_requests[j].iteration => i = j)
    /\ [](tool_calls <= llm_calls /\ Len(tool_outcomes) <= tool_calls)
    /\ [][ tool_requests' /= tool_requests
             => /\ pc = "execute_tool"
                /\ Len(tool_requests') = Len(tool_requests) + 1
                /\ Len(tool_outcomes) = Len(tool_requests)
                /\ llm_calls = Len(tool_requests) + 1 ]_vars
    /\ [][ pc = "tool_wait"
             => /\ pc' \in {"for", "done"}
                /\ tool_requests' = tool_requests ]_vars

\* the first tool call failed, was not issued again, and the run went on to
\* a second LLM call and ended
C29_Witness ==
    /\ pc = "done"
    /\ tool_calls = 1
    /\ tool_outcomes[1].kind = "raise"
    /\ tool_outcomes[1].exc = "ToolCallError"
    /\ llm_calls = 2

\* the two fixed texts execute_tool puts in content when the call failed
GenericFailureMessages ==
    { JStr(<<"tool_execution_failed">>), JStr(<<"unexpected_error_occurred">>) }

\* C30: at every point of a run the ToolResult of every tool call names
\* the tool of that call.  It has ok = true exactly when the transport returned (a decoded JSON
\* response): then content is that response serialized and error is unset.
\* It has ok = false exactly when the transport raised: then content is one
\* of the fixed failure messages and error is the text of the exception.
\* (A returned object that json.dumps cannot encode, which call_tool never
\* returns, counts as a failure with the encoder's message as error.)
C30_ToolResultReflectsOutcome ==
    [](  /\ Len(tool_results) = Len(tool_outcomes)
         /\ \A j \in 1..Len(tool_results) :
              LET call == tool_requests[j]
                  result == tool_outcomes[j]
                  returned == result.kind = "return" /\ ~Unserializable(result.result)
              IN  /\ tool_results[j].kind = "tool_result"
                  /\ tool_results[j].tool = call.tool_name
                  /\ tool_results[j].ok \in {JTrue, JFalse}
                  /\ (tool_results[j].ok = JTrue) <=> returned
                  /\ (result \in { call_tool(call.tool_name, http) : http \in ToolHttpOutcomes })
                        => ((tool_results[j].ok = JTrue) <=> (result.kind = "return"))
                  /\ returned
                        => /\ tool_results[j].content = JStr(JsonDumps(result.result))
                           /\ JsonLoads(tool_results[j].content.v).val = result.result
                           /\ tool_results[j].error = JNull
                  /\ result.kind = "raise"
                        => /\ tool_results[j].ok = JFalse
                           /\ tool_results[j].content \in GenericFailureMessages
                           /\ tool_results[j].error = JStr(result.msg)
                  /\ (result.kind = "return" /\ Unserializable(result.result))
                        => /\ tool_results[j].content \in GenericFailureMessages
                           /\ IsStr(tool_results[j].error) )

\* one call succeeded and one failed with a server error in the same run
C30_Witness ==
    /\ Len(tool_results) = 2
    /\ tool_outcomes[1].kind = "return"
    /\ tool_results[1].ok = JTrue
    /\ tool_outcomes[2].kind = "raise"
    /\ tool_outcomes[2].exc = "ToolServerError"
    /\ tool_results[2].ok = JFalse

\* ------------------------------------------------------------------------
\* C31..C33: history across LLM calls, kinds of failure, returned strings
\* ------------------------------------------------------------------------
\* s continues t: nothing of t is removed, reordered or rewritten
IsExtension(s, t) == Len(s) >= Len(t) /\ SubSeq(s, 1, Len(t)) = t

\* C31: the history is append-only across the LLM calls of a run.  When LLM
\* call k+1 is issued, the history it is given is the history given to call
\* k followed by exactly two messages: the assistant turn holding the tool
\* call parsed from reply k, then the user turn holding the ToolResult of
\* executing that same call.  No step removes, reorders or rewrites a
\* message of the history or of a request already sent.
C31_HistoryAppendOnly ==
    /\ [][ llm_requests' /= llm_requests
             => /\ Len(llm_requests') = Len(llm_requests) + 1
                /\ SubSeq(llm_requests', 1, Len(llm_requests)) = llm_requests
                /\ llm_requests'[Len(llm_requests')].messages = messages
                /\ LET k == Len(llm_requests) IN
                   (k >= 1) =>
                     LET e == parse_log[Len(parse_log)]
                         call == parse_llm_response(e.text).value
                         fixed == safe_parse_json(llm_response_text)
                     IN  /\ IsToolCallVariant(e)
                         /\ e.iteration = k - 1
                         /\ \/ e.text = llm_response_text
                            \/ fixed.ok /\ e.text = fixed.text
                         /\ call = action
                         /\ Len(tool_requests) = k
                         /\ Len(tool_results) = k
                         /\ tool_requests[k].tool_name = call.tool
                         /\ tool_requests[k].arguments = call.arguments
                         /\ tool_results[k] = execute_tool(call, tool_outcomes[k])
                         /\ llm_requests'[k + 1].messages =
                               llm_requests[k].messages
                                  \o << Message("assistant", JsonDumps(model_dump(call))),
                                        Message("user", JsonDumps(model_dump(tool_results[k]))) >> ]_vars
    /\ [][ /\ IsExtension(messages', messages)
           /\ Len(messages') \in { Len(messages), Len(messages) + 2 } ]_vars

\* a second LLM call was issued after a tool call that failed, with a
\* history of four messages
C31_Witness ==
    /\ llm_calls = 2
    /\ Len(llm_requests[2].messages) = 4
    /\ Len(llm_requests[1].messages) = 2
    /\ tool_results[1].ok = JFalse

\* the OrchestratorError subclasses raised inside the loop and re-raised
\* unchanged by the first handler of the iteration
TypedFailures == { "OrchestratorError", "InvalidResponseFormat", "ToolExecutionFailed" }

\* the last reply could not be turned into a variant although repair was
\* tried: safe_parse_json raised, or the parse of the repaired text raised
RepairFailed ==
    /\ parse_log /= <<>>
    /\ LET n == Len(parse_log) IN
          \/ parse_log[n].op = "repair" /\ ~parse_log[n].ok
          \/ /\ n >= 2
             /\ parse_log[n].op = "parse" /\ ~parse_log[n].ok
             /\ parse_log[n - 1].op = "repair"
             /\ parse_log[n - 1].iteration = parse_log[n].iteration

\* C32: typed failures raised inside an iteration keep their kind.  When
\* repair was tried and failed, or when the parsed variant is of a type the
\* loop does not handle, the run ends with InvalidResponseFormat itself; no
\* generic OrchestratorError of the catch-all handler ever wraps one of the
\* typed failures.  MaxIterationsReached is raised only at the loop head
\* with the budget used up, after max_iterations iterations each of which
\* made one LLM call, parsed a tool call and executed it; no terminal
\* variant was parsed before it.
C32_TypedFailuresKeepKind ==
    /\ [](pc = "done" /\ RepairFailed
             => /\ FailedWith("InvalidResponseFormat")
                /\ outcome.template = "repair_failed")
    /\ [](pc = "done" /\ action.kind = "tool_result"
             => /\ FailedWith("InvalidResponseFormat")
                /\ outcome.template = "unknown_response_type")
    /\ [](Failed /\ outcome.template = "unexpected"
             => /\ outcome.exc = "OrchestratorError"
                /\ \A i \in 1..Len(outcome.args) :
                     outcome.args[i] \notin TypedFailures \cup {"MaxIterationsReached"})
    /\ [](FailedWith("MaxIterationsReached")
             => /\ iteration = max_iterations
                /\ llm_calls = max_iterations
                /\ tool_calls = max_iterations
                /\ Len(tool_results) = max_iterations
                /\ Len(Variants) = max_iterations
                /\ \A i \in 1..Len(Variants) :
                     /\ Variants[i].result = "tool_call"
                     /\ Variants[i].iteration = i - 1
                /\ ~RepairFailed)
    /\ [][ outcome'.kind = "raise" /\ outcome'.exc = "MaxIterationsReached"
             /\ outcome' /= outcome
             => /\ pc = "for"
                /\ iteration = max_iterations
                /\ Len(tool_results) = max_iterations ]_vars

\* in the second iteration, after one executed tool call, the reply could
\* not be repaired and the run ended with InvalidResponseFormat
C32_Witness ==
    /\ pc = "done"
    /\ RepairFailed
    /\ FailedWith("InvalidResponseFormat")
    /\ iteration = 1
    /\ tool_calls = 1

\* the text decodes to a final_answer object whose content is a string that
\* is empty or holds nothing but whitespace
BlankFinalAnswer(text) ==
    \E r \in { JsonLoads(text) } :
       /\ r.ok
       /\ KindOf(r.val) = "final_answer"
       /\ HasKey(r.val, <<"content">>)
       /\ IsStr(DictGet(r.val, <<"content">>))
       /\ Strip(DictGet(r.val, <<"content">>).v) = <<>>

\* C33: every string run_loop returns is non-empty and neither starts nor
\* ends with whitespace; it is the content member of the final_answer reply
\* that was parsed last, trimmed.  A final_answer reply whose content is
\* empty or whitespace-only never yields a return value: the run ends with
\* InvalidResponseFormat.
C33_ReturnedStringTrimmed ==
    /\ [](outcome.kind = "return"
            => /\ outcome.value /= <<>>
               /\ outcome.value[1] \notin StripChars
               /\ outcome.value[Len(outcome.value)] \notin StripChars
               /\ parse_log /= <<>>
               /\ \E e \in { parse_log[Len(parse_log)] } :
                    /\ IsVariant(e)
                    /\ e.result = "final_answer"
                    /\ ~BlankFinalAnswer(e.text)
                    /\ outcome.value =
                          Strip(DictGet(JsonLoads(e.text).val, <<"content">>).v))
    /\ [](pc = "done" /\ llm_calls >= 1 /\ Len(llm_outcomes) = llm_calls
            /\ llm_outcomes[llm_calls].kind = "return"
            /\ BlankFinalAnswer(llm_response_text)
            => FailedWith("InvalidResponseFormat"))

\* a padded answer was returned trimmed
C33_Witness ==
    /\ outcome.kind = "return"
    /\ llm_response_text = ReplyFinalPadded
    /\ outcome.value = <<"OK">>

\* ------------------------------------------------------------------------
\* C34: safe_parse_json applied to its own output
\* ------------------------------------------------------------------------
\* C34: safe_parse_json is idempotent on its successful outputs.  Whenever
\* the call on a text returned, its output passes the strict parse, and
\* safe_parse_json applied to that output returns too, with the very same
\* text.
C34_RepairIdempotent ==
    (pc = "repair_done" /\ repair_output.ok)
       => /\ JsonLoads(repair_output.text).ok
          /\ \E again \in { safe_parse_json(repair_output.text) } :
               /\ again.ok
               /\ again.text = repair_output.text

\* a padded, fenced reply with its closing braces cut off was repaired: the
\* output differs from the input, and repairing it again changes nothing
C34_Witness ==
    /\ pc = "repair_done"
    /\ repair_input = Pad("both", Wrap("fenced_json", Cut(BodyNested, 2)))
    /\ repair_output.ok
    /\ repair_output.text = BodyNested
    /\ repair_output.text /= repair_input
    /\ safe_parse_json(repair_output.text).text = BodyNested

\* ------------------------------------------------------------------------
\* C35..C37: fetch_tools and the registry cache
\* ------------------------------------------------------------------------
\* the exception classes of the registry module
RegistryErrors ==
    { "RegistryError", "RegistryTimeoutError", "RegistryConnectionError",
      "RegistryParseError" }

\* the cache file the call found holds an entry, the entry carries a time of
\* writing and is no older than cache_ttl, and its api_base is the one asked for
UsableEntry(call) ==
    /\ call.before.kind = "data"
    /\ call.before.data /= None
    /\ call.before.data.t = "dict"
    /\ call.before.data.cached_at /= Absent
    /\ call.before.data.cached_at.k \in { "aware", "naive" }
    /\ call.at - call.before.data.cached_at.at <= call.cache_ttl
    /\ call.before.data.api_base = JStr(<<call.api_base>>)

\* C35: a fetch_tools call with use_cache = true returns the cached registry
\* without an HTTP request exactly when the cache holds an entry, no older
\* than cache_ttl, for the api_base asked for.  In every other case (no
\* file, unreadable file, entry without timestamp, expired entry, other
\* api_base) the HTTP request is sent, and when it succeeds the cache file
\* afterwards holds the new result.
C35_CacheHitIffUsable ==
    (fetch_call.kind = "fetched" /\ fetch_call.use_cache)
       => /\ UsableEntry(fetch_call)
               => /\ ~fetch_call.requested
                  /\ fetch_call.result = Return(fetch_call.before.data)
                  /\ cache_file = fetch_call.before
          /\ ~UsableEntry(fetch_call)
               => /\ fetch_call.requested
                  /\ fetch_call.result.kind = "return"
                        => cache_file =
                              FileHolding([fetch_call.result.result
                                             EXCEPT !.cached_at = Stamp("aware", fetch_call.at)])

\* C36: a fetch_tools call whose HTTP request fails (a status other than
\* 200, a body that is no JSON, a registry of invalid structure, a timeout,
\* a connection error, another request error) raises one of the
\* RegistryError classes, a timeout RegistryTimeoutError and a connection
\* error RegistryConnectionError; the cache file is afterwards what it was
\* before the call, and no cache content is returned in place of the
\* missing result.
C36_FailedFetchLeavesCache ==
    (fetch_call.kind = "fetched" /\ fetch_call.requested
        /\ fetch_call.http \in RegistryHttpFailures)
       => /\ fetch_call.result.kind = "raise"
          /\ fetch_call.result.exc \in RegistryErrors
          /\ fetch_call.http.kind = "Timeout"
                => fetch_call.result.exc = "RegistryTimeoutError"
          /\ fetch_call.http.kind = "ConnectionError"
                => fetch_call.result.exc = "RegistryConnectionError"
          /\ cache_file = fetch_call.before
          /\ fetch_call.saved = "not_tried"

\* the second call found the entry the first call had saved for the same
\* api_base, expired; its request timed out, the call raised and the
\* expired entry is still in the cache file
C36_Witness ==
    /\ fetches = 2
    /\ fetch_call.use_cache
    /\ fetch_call.requested
    /\ fetch_call.http = [kind |-> "Timeout"]
    /\ fetch_call.before.kind = "data"
    /\ fetch_call.before.data.t = "dict"
    /\ fetch_call.before.data.tools = ToolsOne
    /\ fetch_call.before.data.api_base = JStr(<<fetch_call.api_base>>)
    /\ fetch_call.at - fetch_call.before.data.cached_at.at > fetch_call.cache_ttl
    /\ fetch_call.result.kind = "raise"
    /\ fetch_call.result.exc = "RegistryTimeoutError"
    /\ cache_file = fetch_call.before

\* C37: a fetch_tools call with use_cache = false neither reads nor writes
\* the cache file.  It always sends the HTTP request; its result is that of
\* the request alone, whatever the cache file holds; and the cache file is
\* afterwards what it was before the call, whether the request succeeded or
\* failed.
C37_NoCacheLeavesCacheAlone ==
    (fetch_call.kind = "fetched" /\ ~fetch_call.use_cache)
       => /\ fetch_call.requested
          /\ cache_file = fetch_call.before
          /\ fetch_call.saved = "not_tried"
          /\ fetch_call.http \in RegistryHttpSuccesses
                => /\ fetch_call.result.kind = "return"
                   /\ fetch_call.result.result.cached_at = Absent
                   /\ fetch_call.result.result.fetched_at = Stamp("aware", fetch_call.at)
                   /\ fetch_call.result.result.api_base = JStr(<<fetch_call.api_base>>)
                   /\ fetch_call.result.result.tools
                         = DictGet(JsonLoads(fetch_call.http.text).val, <<"tools">>)
          /\ fetch_call.http \in RegistryHttpFailures
                => /\ fetch_call.result.kind = "raise"
                   /\ fetch_call.result.exc \in RegistryErrors

\* the second call, without cache, found the fresh entry the first call had
\* saved for the same api_base; it fetched another registry and left the
\* entry in the cache file
C37_Witness ==
    /\ fetches = 2
    /\ ~fetch_call.use_cache
    /\ UsableEntry(fetch_call)
    /\ fetch_call.before.data.tools = ToolsOne
    /\ fetch_call.requested
    /\ fetch_call.http = HttpResponse(200, RegistryBodyNone)
    /\ fetch_call.result.kind = "return"
    /\ fetch_call.result.result.tools = ToolsNone
    /\ cache_file = fetch_call.before

====
